---------------------------- MODULE Spec2Model ----------------------------
(***************************************************************************)
(* https-expresses: routing-table assembly (buildDomainAppMap), the        *)
(* certificate domain set (buildCertDomainSet), the per-request dispatcher *)
(* (createRequestHandler / httpsRequestHandler / runNextApp), the helpers  *)
(* askYesNo, domainMatchesPattern, attachCertificateContexts and           *)
(* parseStaticsAndProxiesDomains, the configuration file (writeConfigFile, *)
(* parseConfigFile), the interactive rescan (reconcileDescriptors,         *)
(* reconcileConfigInteractive, updateConfig, main), the certificate store  *)
(* (loadCertificateEntries, parseCertificateDomains), the handler factory  *)
(* (createAppDescriptors, createStaticApp, createProxyApp) and two         *)
(* requests in flight on one server.                                       *)
(*                                                                         *)
(* Strings are sequences of one-character strings, so that trim(),         *)
(* toLowerCase(), split() and the regular expressions are computed, not    *)
(* assumed.                                                                *)
(***************************************************************************)
EXTENDS Naturals, Sequences, FiniteSets

VARIABLES
    proxyAppDescriptors,   \* main(): proxyApps, the third argument of buildDomainAppMap
    staticAppDescriptors,  \* main(): staticApps
    serverDescriptors,     \* main(): serverDescriptors
    certificateEntries,    \* main(): certificateEntries
    domainToApp,           \* the routing table (a JS Map: hostname -> list)
    certDomainSet,         \* the certificate domain set (a JS Set)
    phase,                 \* "assembling" until the table is built, then "listening"
    q,                     \* the request in flight: req/res and runNextApp's closure
    call,                  \* the call of a helper function under study: arguments and result
    cfgFile,               \* the contents of the configuration file CONFIG_PATH, or NoFile
    disk,                  \* the definition files on disk, in the order a walk meets them
    certRoot,              \* the certificate root CERT_ROOT: its subdirectories in readdir order
    q2                     \* a second request in flight, with a closure of its own

vars == << proxyAppDescriptors, staticAppDescriptors, serverDescriptors,
           certificateEntries, domainToApp, certDomainSet, phase, q, call,
           cfgFile, disk, certRoot, q2 >>

fileVars == << cfgFile, disk, certRoot >>

inputVars == << proxyAppDescriptors, staticAppDescriptors, serverDescriptors,
                certificateEntries >>

-----------------------------------------------------------------------------
(* Bounds *)

\* descriptors handed to buildDomainAppMap, all kinds together
MaxDescriptors == 3
\* descriptors written to the configuration file, all kinds together
MaxConfigEntries == 2
\* starts of the process (rescans with --update, then possibly a serving start)
MaxStarts == 2
\* pieces (a scheme prefix, a letter, a slash, white space, a line end, ...)
\* a static or proxy definition file is made of
MaxPieces == 4
\* times one definition file is parsed in a row
MaxParses == 2
\* certificate entries handed to attachCertificateContexts
MaxCertEntries == 3
\* characters of a domain name and of a certificate's domain pattern
MaxNameLen == 3
\* characters of an operator's answer to a prompt
MaxAnswerLen == 4
\* continuation calls one handler invocation makes (1 = a well-behaved one)
MaxNextCalls == 2

-----------------------------------------------------------------------------
(* Strings *)

\* String.prototype.toLowerCase on the alphabet of the model
LowerChar(c) ==
    CASE c = "A" -> "a"
      [] c = "B" -> "b"
      [] c = "C" -> "c"
      [] c = "E" -> "e"
      [] c = "H" -> "h"
      [] c = "P" -> "p"
      [] c = "S" -> "s"
      [] c = "T" -> "t"
      [] c = "X" -> "x"
      [] c = "Y" -> "y"
      [] OTHER -> c

toLowerCase(s) == [i \in 1..Len(s) |-> LowerChar(s[i])]

\* the white space String.prototype.trim removes
IsSpace(c) == c \in { " ", "\t", "\r", "\n" }

RECURSIVE trimStart(_)
trimStart(s) ==
    IF s = << >> THEN << >>
    ELSE IF IsSpace(Head(s)) THEN trimStart(Tail(s)) ELSE s

RECURSIVE trimEnd(_)
trimEnd(s) ==
    IF s = << >> THEN << >>
    ELSE IF IsSpace(s[Len(s)]) THEN trimEnd(SubSeq(s, 1, Len(s) - 1)) ELSE s

\* String.prototype.trim
trim(s) == trimEnd(trimStart(s))

\* s without its first n characters, s without its last n characters
dropFirst(s, n) == SubSeq(s, n + 1, Len(s))
dropLast(s, n) == SubSeq(s, 1, Len(s) - n)

\* the strings of at most n characters over an alphabet
StringsUpTo(chars, n) == UNION { [1..k -> chars] : k \in 0..n }

\* s.split(':')[0]: the part of s before its first ':' (all of s without one)
RECURSIVE splitColonFirst(_)
splitColonFirst(s) ==
    IF s = << >> THEN << >>
    ELSE IF Head(s) = ":" THEN << >>
    ELSE << Head(s) >> \o splitColonFirst(Tail(s))

-----------------------------------------------------------------------------
(* buildDomainAppMap *)

\* an empty JS Map
EmptyMap == [k \in {} |-> << >>]

\* domainToApps.get(normalized) || []
mapGet(m, k) == IF k \in DOMAIN m THEN m[k] ELSE << >>

\* faulty variant: the new entry replaces the list
listPushDropping(m, k, entry) == << entry >>

\* list.push(entry) on mapGet's result
listPush(m, k, entry) == Append(mapGet(m, k), entry)

\* domainToApps.set(normalized, list)
mapSet(m, k, list) == [x \in (DOMAIN m) \cup {k} |-> IF x = k THEN list ELSE m[x]]

\* faulty variant: a domain that normalizes to nothing is attached as well
attachDomainKeepEmpty(m, d, domain, effectiveKind) ==
    LET normalized == toLowerCase(trim(domain)) IN
    mapSet(m, normalized,
           listPush(m, normalized,
                    [app |-> d.app, source |-> d.filename, kind |-> effectiveKind]))

\* the body of (domains || []).forEach for one domain of one descriptor
attachDomain(m, d, domain, effectiveKind) ==
    LET normalized == toLowerCase(trim(domain)) IN
    IF normalized = << >> THEN m
    ELSE mapSet(m, normalized,
                listPush(m, normalized,
                         [app |-> d.app, source |-> d.filename, kind |-> effectiveKind]))

\* (domains || []).forEach over domains[i..]
RECURSIVE attachDomains(_, _, _, _)
attachDomains(m, d, i, effectiveKind) ==
    IF i > Len(d.domains) THEN m
    ELSE attachDomains(attachDomain(m, d, d.domains[i], effectiveKind), d, i + 1,
                       effectiveKind)

\* attachDescriptors(descriptors, kindOverride), over descriptors[i..]
RECURSIVE attachDescriptors(_, _, _, _)
attachDescriptors(m, descriptors, i, kindOverride) ==
    IF i > Len(descriptors) THEN m
    ELSE attachDescriptors(attachDomains(m, descriptors[i], 1, kindOverride),
                           descriptors, i + 1, kindOverride)

\* faulty variant: statics attached before proxies
buildDomainAppMapStaticFirst(servers, statics, proxies) ==
    attachDescriptors(
        attachDescriptors(
            attachDescriptors(EmptyMap, statics, 1, "static"),
            proxies, 1, "proxy"),
        servers, 1, "express")

\* proxies, then statics, then express servers
buildDomainAppMap(servers, statics, proxies) ==
    attachDescriptors(
        attachDescriptors(
            attachDescriptors(EmptyMap, proxies, 1, "proxy"),
            statics, 1, "static"),
        servers, 1, "express")

-----------------------------------------------------------------------------
(* buildCertDomainSet *)

buildCertDomainSet(ee) ==
    UNION { { toLowerCase(trim(ee[i].domains[j])) : j \in 1..Len(ee[i].domains) } :
            i \in 1..Len(ee) } \ { << >> }

-----------------------------------------------------------------------------
(* createRequestHandler: the response object and runNextApp's closure *)

STS == "Strict-Transport-Security"
CSP == "Content-Security-Policy"
ContentType == "Content-Type"

\* who wrote a status: the dispatcher itself, or the app of a routing entry
Dispatcher == << "dispatcher", 0 >>

\* req.headers.host is absent
NoHost == << "undefined" >>

\* no call of httpsRequestHandler yet
NoRequest ==
    [ open |-> FALSE, hostname |-> << >>, mappings |-> << >>, index |-> 0,
      headers |-> {}, headersSent |-> FALSE, sent |-> << >>, invoked |-> << >>,
      stack |-> << >>, h |-> << >>, logged |-> {}, escaped |-> FALSE ]

\* a handler invocation that has not happened yet
Idle == [ st |-> "idle", nexts |-> 0, errs |-> 0, threw |-> FALSE ]

\* res.setHeader(name, ...)
setHeader(r, name) == [r EXCEPT !.headers = @ \cup {name}]

\* res.statusCode = code; res.setHeader('Content-Type', ...); res.end(body), by the
\* dispatcher: the status line goes out with the headers set so far
endWith(r, code, body) ==
    LET r1 == setHeader(r, ContentType) IN
    [r1 EXCEPT !.headersSent = TRUE,
               !.sent = Append(@, [by |-> Dispatcher, statusCode |-> code,
                                   body |-> body, headers |-> r1.headers])]

\* app(req, res, next): the handler of position i starts running on top of the stack
invokeApp(r, i) ==
    [r EXCEPT !.invoked = Append(@, [app |-> r.mappings[i].app, pos |-> i,
                                     headers |-> r.headers]),
              !.stack = Append(@, i),
              !.h[i].st = "running"]

\* faulty variant: the chain counts as exhausted after its first handler
runNextAppEarly404(r) ==
    IF r.headersSent THEN r
    ELSE IF r.index >= 1
    THEN endWith(r, 404, "Not found")
    ELSE invokeApp([r EXCEPT !.index = @ + 1], r.index + 1)

\* faulty variant: an exhausted chain ends the walk without a status
runNextAppSilent(r) ==
    IF r.headersSent THEN r
    ELSE IF r.index >= Len(r.mappings)
    THEN r
    ELSE invokeApp([r EXCEPT !.index = @ + 1], r.index + 1)

\* faulty variant: the index is read and not advanced (mappings[index])
runNextAppNoAdvance(r) ==
    IF r.headersSent THEN r
    ELSE IF r.index >= Len(r.mappings)
    THEN endWith(r, 404, "Not found")
    ELSE invokeApp(r, r.index + 1)

\* runNextApp(): index counts the handlers taken so far (mappings[index++])
runNextApp(r) ==
    IF r.headersSent THEN r
    ELSE IF r.index >= Len(r.mappings)
    THEN endWith(r, 404, "Not found")
    ELSE invokeApp([r EXCEPT !.index = @ + 1], r.index + 1)

\* console.error(`Error handling request for ${hostname} via ${source}:`, ...)
logError(r, i) == [r EXCEPT !.logged = @ \cup { << r.hostname, r.mappings[i].source >> }]

\* faulty variant: 500 written without looking at res.headersSent
continuationAlways500(r, i, err) ==
    IF err
    THEN endWith(logError(r, i), 500, "Internal server error.")
    ELSE IF ~r.headersSent THEN runNextApp(r) ELSE r

\* faulty variant: an error passed to the continuation is logged and the
\* walk goes on, as after an exception
continuationErrContinues(r, i, err) ==
    IF err
    THEN LET r1 == logError(r, i) IN
         IF ~r1.headersSent THEN runNextApp(r1) ELSE r1
    ELSE IF ~r.headersSent THEN runNextApp(r) ELSE r

\* the continuation (err)=>{...} handed to the handler of position i
continuation(r, i, err) ==
    IF err
    THEN LET r1 == logError(r, i) IN
         IF ~r1.headersSent THEN endWith(r1, 500, "Internal server error.") ELSE r1
    ELSE IF ~r.headersSent THEN runNextApp(r) ELSE r

\* faulty variant: the catch block logs and stops the walk
catchErrorStop(r, i) == logError(r, i)

\* faulty variant: no try/catch, the exception leaves httpsRequestHandler
catchErrorNone(r, i) == [r EXCEPT !.escaped = TRUE, !.stack = << >>]

\* catch(error){...} around the invocation of the handler of position i
catchError(r, i) ==
    LET r1 == logError(r, i) IN
    IF ~r1.headersSent THEN runNextApp(r1) ELSE r1

\* faulty variant: no security header is set
injectNothing(r, set) == r

\* if(certDomainSet.has(hostname)) { res.setHeader(...); res.setHeader(...); }
injectSecurityHeaders(r, set) ==
    IF r.hostname \in set THEN setHeader(setHeader(r, STS), CSP) ELSE r

\* faulty variant: no check for a missing routing entry
httpsRequestHandlerNo502(table, set, host) ==
    LET hostHeader == IF host = NoHost THEN << >> ELSE host
        hostname   == toLowerCase(splitColonFirst(hostHeader))
        mappings   == mapGet(table, hostname)
        r0 == [NoRequest EXCEPT !.open = TRUE, !.hostname = hostname,
                                !.mappings = mappings,
                                !.h = [i \in 1..Len(mappings) |-> Idle]]
    IN  runNextApp(injectSecurityHeaders(r0, set))

\* faulty variant: the lookup key keeps the case of the Host header
httpsRequestHandlerCaseSensitive(table, set, host) ==
    LET hostHeader == IF host = NoHost THEN << >> ELSE host
        hostname   == splitColonFirst(hostHeader)
        mappings   == mapGet(table, hostname)
        r0 == [NoRequest EXCEPT !.open = TRUE, !.hostname = hostname,
                                !.mappings = mappings,
                                !.h = [i \in 1..Len(mappings) |-> Idle]]
        r1 == injectSecurityHeaders(r0, set)
    IN  IF Len(mappings) = 0
        THEN endWith(r1, 502, "No application configured for this domain.")
        ELSE runNextApp(r1)

\* httpsRequestHandler(req, res), up to the point where it hands control to the
\* first handler (or has answered 502 itself)
httpsRequestHandler(table, set, host) ==
    LET hostHeader == IF host = NoHost THEN << >> ELSE host
        hostname   == toLowerCase(splitColonFirst(hostHeader))
        mappings   == mapGet(table, hostname)
        r0 == [NoRequest EXCEPT !.open = TRUE, !.hostname = hostname,
                                !.mappings = mappings,
                                !.h = [i \in 1..Len(mappings) |-> Idle]]
        r1 == injectSecurityHeaders(r0, set)
    IN  IF Len(mappings) = 0
        THEN endWith(r1, 502, "No application configured for this domain.")
        ELSE runNextApp(r1)

-----------------------------------------------------------------------------
(* What a handler can do with (req, res, next).  A handler is an arbitrary    *)
(* callable: the static handler of createStaticApp answers (res.sendFile) or  *)
(* calls next(); an application module may do either, pass an error, throw,   *)
(* call next() again, or act from a later callback after it has returned.     *)

\* the handler of position i is executing: synchronously on top of the call
\* stack, or from a callback of its own once the stack has unwound
Acting(r, i) ==
    /\ r.open
    /\ ~r.escaped
    /\ i \in 1..Len(r.mappings)
    /\ \/ r.stack # << >> /\ r.stack[Len(r.stack)] = i
       \/ r.stack = << >> /\ r.h[i].st = "done"

\* the handler sends a response (res.end, res.sendFile, res.writeHead) while the
\* headers are not out yet: its status line goes out with the headers set so far.
\* (Once the headers are out the response object puts nothing more on the wire:
\* a later attempt changes no state.)
handlerResponds(r, i) ==
    [r EXCEPT !.headersSent = TRUE,
              !.sent = Append(@, [by |-> r.mappings[i].app, statusCode |-> 200,
                                  body |-> "handler", headers |-> r.headers])]

\* the handler calls next() or next(err)
handlerCallsNext(r, i, err) ==
    continuation(IF err THEN [r EXCEPT !.h[i].errs = @ + 1]
                        ELSE [r EXCEPT !.h[i].nexts = @ + 1], i, err)

\* the synchronous part of the handler ends: the frame leaves the stack
unwind(r, i, threw) ==
    [r EXCEPT !.stack = SubSeq(@, 1, Len(@) - 1),
              !.h[i].st = "done",
              !.h[i].threw = threw]

\* the handler throws out of app(req, res, next): the catch block runs
handlerThrows(r, i) == catchError(unwind(r, i, TRUE), i)

\* app(req, res, next) returns
handlerReturns(r, i) == unwind(r, i, FALSE)

-----------------------------------------------------------------------------
(* Inputs *)

dA == << "a" >>
dUpperA == << "A" >>
dPaddedA == << " ", "a", " " >>
dB == << "b" >>
dUpperB == << "B" >>
dBlank == << " " >>

\* the domain lists a descriptor handed to buildDomainAppMap may declare
DomainLists ==
    { << >>, << dA >>, << dUpperA, dB >>, << dPaddedA >>, << dB, dA >>,
      << dBlank, dB >>, << dA, dA >> }

\* the domain lists of the descriptors of one kind, in a deployment that serves
\* requests: no descriptor of the kind, or one
ServedChoices == { << >>, << << dUpperA >> >>, << << dB, dBlank, dPaddedA >> >> }

\* the certificate entries of a deployment
CertChoices ==
    { << >>, << [domains |-> << dA >>] >>, << [domains |-> << dUpperB, dBlank >>] >> }

\* the Host headers of requests
HostHeaders ==
    { NoHost, << >>, dA, << "A", ":", "4" >>, dB, << "c" >>, << ":", "a" >> }

\* no helper call is under study
NoCall == [fn |-> "none"]

\* fs.existsSync(CONFIG_PATH) is false
NoFile == << "ENOENT" >>
\* fs.existsSync(CERT_ROOT) is false
NoRoot == [exists |-> FALSE, dirs |-> << >>]

\* the server is not part of the scenario: nothing loaded, nothing listening
NotServing ==
    /\ proxyAppDescriptors = << >>
    /\ staticAppDescriptors = << >>
    /\ serverDescriptors = << >>
    /\ certificateEntries = << >>
    /\ domainToApp = EmptyMap
    /\ certDomainSet = {}
    /\ phase = "offline"
    /\ q = NoRequest
    /\ q2 = NoRequest
    /\ cfgFile = NoFile
    /\ disk = << >>
    /\ certRoot = NoRoot

serverVars == << inputVars, domainToApp, certDomainSet, phase, q, q2 >>

\* the descriptors of one kind, in discovery order, from their domain lists
Descriptors(kind, lists) ==
    [i \in 1..Len(lists) |->
        [domains |-> lists[i], app |-> << kind, i >>, filename |-> << kind, i >>]]

\* main() has its descriptor lists and certificate entries in hand
Inputs(p, s, e) ==
    /\ proxyAppDescriptors = Descriptors("proxy", p)
    /\ staticAppDescriptors = Descriptors("static", s)
    /\ serverDescriptors = Descriptors("express", e)
    /\ certificateEntries \in CertChoices

-----------------------------------------------------------------------------
(* SpecBuild: main() assembles the routing table and the certificate set *)

InitBuild ==
    /\ \E np \in 0..MaxDescriptors :
       \E ns \in 0..(MaxDescriptors - np) :
       \E ne \in 0..(MaxDescriptors - np - ns) :
       \E p \in [1..np -> DomainLists], s \in [1..ns -> DomainLists],
          e \in [1..ne -> DomainLists] : Inputs(p, s, e)
    /\ domainToApp = EmptyMap
    /\ certDomainSet = {}
    /\ phase = "assembling"
    /\ q = NoRequest
    /\ q2 = NoRequest
    /\ call = NoCall
    /\ cfgFile = NoFile
    /\ disk = << >>
    /\ certRoot = NoRoot

\* main(): buildDomainAppMap(...), buildCertDomainSet(...), then listen
Assemble ==
    /\ phase = "assembling"
    /\ domainToApp' = buildDomainAppMap(serverDescriptors, staticAppDescriptors,
                                        proxyAppDescriptors)
    /\ certDomainSet' = buildCertDomainSet(certificateEntries)
    /\ phase' = "listening"
    /\ UNCHANGED << inputVars, q, q2, call, fileVars >>

NextBuild == Assemble

SpecBuild == InitBuild /\ [][NextBuild]_vars

-----------------------------------------------------------------------------
(* Spec: a listening server dispatches one request *)

Init ==
    /\ \E p \in ServedChoices, s \in ServedChoices, e \in ServedChoices : Inputs(p, s, e)
    /\ domainToApp = buildDomainAppMap(serverDescriptors, staticAppDescriptors,
                                       proxyAppDescriptors)
    /\ certDomainSet = buildCertDomainSet(certificateEntries)
    /\ phase = "listening"
    /\ q = NoRequest
    /\ q2 = NoRequest
    /\ call = NoCall
    /\ cfgFile = NoFile
    /\ disk = << >>
    /\ certRoot = NoRoot

Frame == UNCHANGED << inputVars, domainToApp, certDomainSet, phase, call, fileVars, q2 >>

\* the transport calls httpsRequestHandler(req, res)
Request(host) ==
    /\ phase = "listening"
    /\ ~q.open
    /\ q' = httpsRequestHandler(domainToApp, certDomainSet, host)
    /\ Frame

HandlerResponds(i) ==
    /\ Acting(q, i)
    /\ ~q.headersSent
    /\ q' = handlerResponds(q, i)
    /\ Frame

HandlerDefers(i) ==
    /\ Acting(q, i)
    /\ q.h[i].nexts + q.h[i].errs < MaxNextCalls
    /\ q' = handlerCallsNext(q, i, FALSE)
    /\ Frame

HandlerFails(i) ==
    /\ Acting(q, i)
    /\ q.h[i].nexts + q.h[i].errs < MaxNextCalls
    /\ q' = handlerCallsNext(q, i, TRUE)
    /\ Frame

HandlerThrows(i) ==
    /\ Acting(q, i)
    /\ q.h[i].st = "running"
    /\ q' = handlerThrows(q, i)
    /\ Frame

HandlerReturns(i) ==
    /\ Acting(q, i)
    /\ q.h[i].st = "running"
    /\ q' = handlerReturns(q, i)
    /\ Frame

Next ==
    \/ \E host \in HostHeaders : Request(host)
    \/ \E i \in 1..Len(q.mappings) : HandlerResponds(i)
    \/ \E i \in 1..Len(q.mappings) : HandlerDefers(i)
    \/ \E i \in 1..Len(q.mappings) : HandlerFails(i)
    \/ \E i \in 1..Len(q.mappings) : HandlerThrows(i)
    \/ \E i \in 1..Len(q.mappings) : HandlerReturns(i)

Spec == Init /\ [][Next]_vars

-----------------------------------------------------------------------------
(* Vocabulary of the properties *)

normalize(domain) == toLowerCase(trim(domain))

\* how often descriptor d declares hostname k
Declares(d, k) == Cardinality({ j \in 1..Len(d.domains) : normalize(d.domains[j]) = k })

\* the apps of the descriptors of one list that declare hostname k
AppsDeclaring(descriptors, k) ==
    { descriptors[i].app : i \in { x \in 1..Len(descriptors) : Declares(descriptors[x], k) > 0 } }

AllDescriptors ==
    { proxyAppDescriptors[i] : i \in 1..Len(proxyAppDescriptors) }
    \cup { staticAppDescriptors[i] : i \in 1..Len(staticAppDescriptors) }
    \cup { serverDescriptors[i] : i \in 1..Len(serverDescriptors) }

KindRank(kind) == CASE kind = "proxy" -> 1 [] kind = "static" -> 2 [] OTHER -> 3

\* the statuses on the wire that a handler wrote, and those the dispatcher wrote
HandlerSent == { k \in 1..Len(q.sent) : q.sent[k].by # Dispatcher }
DispatcherSent == { k \in 1..Len(q.sent) : q.sent[k].by = Dispatcher }

Positions == 1..Len(q.mappings)

-----------------------------------------------------------------------------
(* C1 *)

\* the list of hostname k holds the kinds in priority order, each kind in the
\* order of its descriptors, and one entry per declaration of k
PriorityOrdered(list) ==
    \A x, y \in 1..Len(list) :
        x < y => /\ KindRank(list[x].kind) <= KindRank(list[y].kind)
                 /\ list[x].kind = list[y].kind => list[x].app[2] <= list[y].app[2]

Complete(list, k) ==
    /\ \A d \in AllDescriptors :
          Cardinality({ x \in 1..Len(list) : list[x].app = d.app /\ list[x].kind = d.app[1]
                                            /\ list[x].source = d.filename })
            = Declares(d, k)
    /\ \A x \in 1..Len(list) : \E d \in AllDescriptors : list[x].app = d.app

\* C1: in the routing table built by buildDomainAppMap every per-hostname list
\* holds the hostname's proxy handlers, then its static handlers, then its
\* application handlers, each group in the order of the input descriptors, with
\* one entry for every declaration: no insertion replaced or removed an earlier
\* entry; and the keys are exactly the declared hostnames.
C1_PriorityAppend ==
    phase = "listening" =>
        /\ \A k \in DOMAIN domainToApp :
              PriorityOrdered(domainToApp[k]) /\ Complete(domainToApp[k], k)
        /\ \A d \in AllDescriptors : \A j \in 1..Len(d.domains) :
              normalize(d.domains[j]) # << >> => normalize(d.domains[j]) \in DOMAIN domainToApp

\* a hostname served by all three kinds, after assembly
C1_Witness ==
    /\ phase = "listening"
    /\ \E k \in DOMAIN domainToApp :
          /\ Len(domainToApp[k]) >= 3
          /\ { domainToApp[k][x].kind : x \in 1..Len(domainToApp[k]) }
                = { "proxy", "static", "express" }

-----------------------------------------------------------------------------
(* C2 *)

\* the request's hostname is declared by a proxy descriptor and by a static one
HasProxyAndStatic ==
    /\ q.open
    /\ AppsDeclaring(proxyAppDescriptors, q.hostname) # {}
    /\ AppsDeclaring(staticAppDescriptors, q.hostname) # {}

\* position p holds the last proxy handler of the chain, p + 1 the first static one
ProxyThenStatic(p) ==
    /\ p \in Positions /\ p + 1 \in Positions
    /\ q.mappings[p].kind = "proxy"
    /\ q.mappings[p + 1].kind = "static"

\* C2 as claimed: the static handler is invoked only after the proxy handler has
\* called its continuation without an error.
C2_StaticOnlyAfterDefer ==
    HasProxyAndStatic =>
        \A p \in Positions :
            ProxyThenStatic(p) /\ Len(q.invoked) > p => q.h[p].nexts >= 1

\* C2, amended: for a hostname with a proxy and a static mapping the first handler
\* invoked is a proxy handler; the first static handler is invoked only in a step
\* in which the last proxy handler either calls its continuation without an error
\* or throws synchronously, no response having been sent before; and when that
\* proxy handler defers with nothing sent, the static handler is the next handler
\* invoked.
C2_Step ==
    HasProxyAndStatic =>
        /\ Len(q.invoked) >= 1 =>
              q.invoked[1].app \in AppsDeclaring(proxyAppDescriptors, q.hostname)
        /\ \A p \in Positions :
              ProxyThenStatic(p) =>
                /\ (Len(q.invoked) = p /\ Len(q'.invoked) > p) =>
                      /\ q.sent = << >>
                      /\ \/ q'.h[p].nexts = q.h[p].nexts + 1 /\ q'.h[p].errs = q.h[p].errs
                         \/ q'.h[p].threw /\ ~q.h[p].threw
                      /\ q'.invoked = Append(q.invoked,
                                             [app |-> q.mappings[p + 1].app, pos |-> p + 1,
                                              headers |-> q.headers])
                      /\ q.mappings[p + 1].app
                            \in AppsDeclaring(staticAppDescriptors, q.hostname)
                /\ (Len(q.invoked) = p /\ ~q.headersSent
                      /\ q'.h[p].nexts = q.h[p].nexts + 1) =>
                      /\ Len(q'.invoked) = p + 1
                      /\ q'.invoked[p + 1].app = q.mappings[p + 1].app

C2_ProxyFirstThenStatic == [][C2_Step]_vars

\* the proxy handler has deferred and the static handler has been invoked after it
C2_Witness ==
    /\ HasProxyAndStatic
    /\ \E p \in Positions :
          /\ ProxyThenStatic(p)
          /\ q.h[p].nexts = 1 /\ q.h[p].errs = 0 /\ ~q.h[p].threw
          /\ Len(q.invoked) = p + 1
          /\ q.invoked[p + 1].app \in AppsDeclaring(staticAppDescriptors, q.hostname)

-----------------------------------------------------------------------------
(* C3 *)

\* C3: a request whose extracted hostname has no entry in the routing table is
\* answered 502 with a plain-text body by the dispatcher, and no handler is
\* invoked for it.
C3_NoRoute502 ==
    (q.open /\ q.hostname \notin DOMAIN domainToApp) =>
        /\ Len(q.sent) = 1
        /\ q.sent[1].by = Dispatcher
        /\ q.sent[1].statusCode = 502
        /\ q.sent[1].body = "No application configured for this domain."
        /\ ContentType \in q.sent[1].headers
        /\ q.invoked = << >>

\* a request for an unmapped hostname, in a deployment that maps other hostnames
C3_Witness ==
    /\ q.open
    /\ q.hostname \notin DOMAIN domainToApp
    /\ DOMAIN domainToApp # {}
    /\ Len(q.sent) = 1

-----------------------------------------------------------------------------
(* C4 *)

\* so far every handler has done nothing but defer: at most one continuation
\* call each, without an error, no response, no exception
OnlyDeferrals ==
    /\ HandlerSent = {}
    /\ \A i \in Positions :
          q.h[i].errs = 0 /\ ~q.h[i].threw /\ q.h[i].nexts <= 1

EveryHandlerDeferred == \A i \in Positions : q.h[i].nexts = 1

\* C4: on a non-empty chain whose handlers only defer, once every handler has
\* deferred the dispatcher has answered 404 'Not found', and it has answered
\* nothing before the last handler of the chain deferred.
C4_AllDefer404 ==
    (q.open /\ Len(q.mappings) > 0 /\ OnlyDeferrals) =>
        /\ EveryHandlerDeferred =>
              /\ Len(q.sent) = 1
              /\ q.sent[1].by = Dispatcher
              /\ q.sent[1].statusCode = 404
              /\ q.sent[1].body = "Not found"
        /\ q.sent # << >> => q.h[Len(q.mappings)].nexts = 1

\* a chain of at least two handlers, all of which deferred, answered 404
C4_Witness ==
    /\ q.open /\ Len(q.mappings) >= 2 /\ OnlyDeferrals /\ EveryHandlerDeferred
    /\ Len(q.sent) = 1 /\ q.sent[1].statusCode = 404

-----------------------------------------------------------------------------
(* C5 *)

\* C5: at most one final status is written for a request, whatever the handlers
\* do (respond, defer, throw, call the continuation again, call it and then
\* throw, respond from a later callback after deferring).
C5_OneFinalStatus == Len(q.sent) <= 1

\* a status was written on a request where a handler called its continuation
\* twice and a handler threw after calling its continuation
C5_Witness ==
    /\ Len(q.sent) = 1
    /\ \E i \in Positions : q.h[i].nexts + q.h[i].errs >= 2
    /\ \E i \in Positions : q.h[i].threw /\ q.h[i].nexts + q.h[i].errs >= 1

-----------------------------------------------------------------------------
(* C6 *)

\* the step in which the handler of position i throws out of its invocation
ThrowStep(i) ==
    /\ i \in Positions
    /\ q.stack # << >> /\ q.stack[Len(q.stack)] = i
    /\ ~q.h[i].threw /\ q'.h[i].threw

\* C6: when a handler throws synchronously the exception is caught (logged, not
\* propagated); if the headers have not been sent the dispatcher invokes the next
\* handler of the chain when there is one, and if they have been sent it invokes
\* no further handler.
C6_Step ==
    \A i \in 1..Len(q.mappings) :
        ThrowStep(i) =>
            /\ ~q'.escaped
            /\ << q.hostname, q.mappings[i].source >> \in q'.logged
            /\ (~q.headersSent /\ q.index < Len(q.mappings)) =>
                  /\ q'.index = q.index + 1
                  /\ q'.invoked = Append(q.invoked,
                                         [app |-> q.mappings[q.index + 1].app,
                                          pos |-> q.index + 1, headers |-> q.headers])
            /\ q.headersSent => (q'.invoked = q.invoked /\ q'.sent = q.sent)

C6_ThrowContinues == [][C6_Step]_vars

\* the first handler threw without calling its continuation, and the second
\* handler has been invoked
C6_Witness ==
    /\ q.open /\ Len(q.mappings) >= 2
    /\ q.h[1].threw /\ q.h[1].nexts = 0 /\ q.h[1].errs = 0
    /\ Len(q.invoked) >= 2

-----------------------------------------------------------------------------
(* C7 *)

\* C7 as claimed: no route gives 502, exhaustion of the chain by deferral gives
\* 404, and a request on which a handler threw, no handler sent anything and the
\* chain is exhausted has status 500.
C7_ErrorStatusMapping ==
    q.open =>
        /\ Len(q.mappings) = 0 => (Len(q.sent) = 1 /\ q.sent[1].statusCode = 502)
        /\ (Len(q.mappings) > 0 /\ OnlyDeferrals /\ EveryHandlerDeferred) =>
              (Len(q.sent) = 1 /\ q.sent[1].statusCode = 404)
        /\ (/\ \E i \in Positions : q.h[i].threw
            /\ HandlerSent = {}
            /\ q.index = Len(q.mappings)
            /\ q.sent # << >>) => q.sent[1].statusCode = 500

-----------------------------------------------------------------------------
(* C8 *)

\* C8: no exception thrown by a handler during its invocation leaves
\* httpsRequestHandler, whether the handler was invoked first or from the
\* continuation of an earlier handler.
C8_NoEscape == ~q.escaped

\* a handler reached through the first handler's continuation threw while the
\* first handler was still inside its own invocation
C8_Witness ==
    /\ q.open /\ Len(q.mappings) >= 2
    /\ q.h[1].st = "running" /\ q.h[1].nexts >= 1
    /\ \E i \in Positions : i >= 2 /\ q.h[i].threw
    /\ ~q.escaped

-----------------------------------------------------------------------------
(* C9 *)

SecurityHeaders == { STS, CSP }

\* C9: for a hostname in the certificate domain set both security headers are on
\* the response when any handler is invoked and when a 502 is written; for a
\* hostname outside the set the dispatcher sets neither.
C9_SecurityHeaders ==
    q.open =>
        IF q.hostname \in certDomainSet
        THEN /\ \A x \in 1..Len(q.invoked) : SecurityHeaders \subseteq q.invoked[x].headers
             /\ \A k \in DispatcherSent : SecurityHeaders \subseteq q.sent[k].headers
             /\ SecurityHeaders \subseteq q.headers
        ELSE /\ SecurityHeaders \cap q.headers = {}
             /\ \A x \in 1..Len(q.invoked) : SecurityHeaders \cap q.invoked[x].headers = {}
             /\ \A k \in 1..Len(q.sent) : SecurityHeaders \cap q.sent[k].headers = {}

\* a certified hostname whose second handler has been invoked
C9_Witness ==
    /\ q.open
    /\ q.hostname \in certDomainSet
    /\ Len(q.invoked) >= 2
    /\ SecurityHeaders \subseteq q.invoked[2].headers

-----------------------------------------------------------------------------
(* C10 *)

\* the request has a hostname, declared by exactly one descriptor, once (a
\* blank domain declares no hostname)
SingleHandler(app) ==
    /\ q.open
    /\ q.hostname # << >>
    /\ \E d \in AllDescriptors : d.app = app /\ Declares(d, q.hostname) = 1
    /\ \A d \in AllDescriptors : d.app # app => Declares(d, q.hostname) = 0

\* C10: for a hostname mapped by one descriptor only, the dispatcher invokes that
\* descriptor's handler and no other, and once that handler has sent a response
\* the dispatcher writes no status or body of its own.
C10_OnlyThatHandler ==
    \A d \in AllDescriptors :
        SingleHandler(d.app) =>
            /\ Len(q.invoked) = 1
            /\ q.invoked[1].app = d.app
            /\ HandlerSent # {} =>
                  (DispatcherSent = {} /\ \A k \in HandlerSent : q.sent[k].by = d.app)

\* the single handler of the hostname has answered, and the deployment has
\* handlers registered under another hostname only
C10_Witness ==
    \E d \in AllDescriptors :
        /\ SingleHandler(d.app)
        /\ HandlerSent # {}
        /\ q.h[1].nexts + q.h[1].errs >= 1
        /\ \E e \in AllDescriptors : e.app # d.app

-----------------------------------------------------------------------------
(* SpecResolve: a listening server resolves the Host headers of two requests *)

\* the Host headers compared: those of HostHeaders and variants of them in
\* case and port
ResolveHosts ==
    HostHeaders \cup { << "a", ":", "4" >>, << "B", ":", "4" >>, << "b", ":" >>, dUpperA }

\* httpsRequestHandler(req, res) for two requests, each on a fresh response
Resolve(host1, host2) ==
    /\ phase = "listening"
    /\ call = NoCall
    /\ call' = [fn |-> "httpsRequestHandler", host1 |-> host1, host2 |-> host2,
                r1 |-> httpsRequestHandler(domainToApp, certDomainSet, host1),
                r2 |-> httpsRequestHandler(domainToApp, certDomainSet, host2)]
    /\ UNCHANGED << inputVars, domainToApp, certDomainSet, phase, q, q2, fileVars >>

NextResolve == \E host1 \in ResolveHosts, host2 \in ResolveHosts : Resolve(host1, host2)

SpecResolve == Init /\ [][NextResolve]_vars

-----------------------------------------------------------------------------
(* C11 *)

\* two strings are equal ignoring case
CaseEq(a, b) == Len(a) = Len(b) /\ \A i \in 1..Len(a) : LowerChar(a[i]) = LowerChar(b[i])

\* the first k characters of Host header h are its host name: they hold no
\* ':' and are followed by the ':' of the port or by the end of the header
IsHostName(h, k) ==
    /\ k \in 0..Len(h)
    /\ \A i \in 1..k : h[i] # ":"
    /\ k = Len(h) \/ h[k + 1] = ":"

\* two Host headers differ only in case or port
SameHost(h1, h2) ==
    /\ h1 # NoHost /\ h2 # NoHost
    /\ \E k1 \in 0..Len(h1), k2 \in 0..Len(h2) :
          /\ IsHostName(h1, k1) /\ IsHostName(h2, k2)
          /\ CaseEq(SubSeq(h1, 1, k1), SubSeq(h2, 1, k2))

\* descriptor domain `domain`, which is not blank, names the host of Host
\* header h, white space around the domain and case apart
NamesHost(domain, h) ==
    \E k \in 0..Len(h), lo \in 1..Len(domain), hi \in 1..Len(domain) :
        /\ IsHostName(h, k)
        /\ lo <= hi
        /\ \A i \in 1..(lo - 1) : IsSpace(domain[i])
        /\ \A i \in (hi + 1)..Len(domain) : IsSpace(domain[i])
        /\ ~IsSpace(domain[lo]) /\ ~IsSpace(domain[hi])
        /\ CaseEq(SubSeq(domain, lo, hi), SubSeq(h, 1, k))

\* the apps of the descriptors one of whose domains names the host of h
AppsNaming(h) ==
    { d.app : d \in { x \in AllDescriptors :
        \E j \in 1..Len(x.domains) : NamesHost(x.domains[j], h) } }

\* C11: requests whose Host headers differ only in case or port resolve
\* identically: to the same lower-case host name without port and to the same
\* handler chain, and the chain holds exactly the apps of the descriptors whose
\* domain, trimmed and case apart, is that host name.
C11_HostResolution ==
    call.fn = "httpsRequestHandler" =>
        /\ SameHost(call.host1, call.host2) =>
              /\ call.r1.hostname = call.r2.hostname
              /\ call.r1.mappings = call.r2.mappings
        /\ call.host1 # NoHost =>
              { call.r1.mappings[i].app : i \in 1..Len(call.r1.mappings) }
                  = AppsNaming(call.host1)

\* two Host headers that differ in case and port resolve to a served chain
C11_Witness ==
    /\ call.fn = "httpsRequestHandler"
    /\ call.host1 = dA /\ call.host2 = << "A", ":", "4" >>
    /\ Len(call.r1.mappings) > 0
    /\ call.r1.mappings = call.r2.mappings

-----------------------------------------------------------------------------
(* SpecAsk: askYesNo classifies one answer of the operator *)

\* faulty variant: an unrecognised answer falls back to the default
askYesNoDefaulting(answer, defaultYes) ==
    LET normalized == toLowerCase(trim(answer)) IN
    IF normalized = << >> THEN defaultYes
    ELSE normalized = << "y" >> \/ normalized = << "y", "e", "s" >> \/ defaultYes

\* askYesNo(question, defaultYes), given the line the operator typed
askYesNo(answer, defaultYes) ==
    LET normalized == toLowerCase(trim(answer)) IN
    IF normalized = << >> THEN defaultYes
    ELSE normalized = << "y" >> \/ normalized = << "y", "e", "s" >>

\* the characters an operator types
AnswerChars == { "y", "Y", "e", "s", "S", "n", " ", "\t" }

\* the lines an operator types
Answers == StringsUpTo(AnswerChars, MaxAnswerLen)

InitAsk ==
    /\ NotServing
    /\ \E answer \in Answers, defaultYes \in BOOLEAN :
          call = [fn |-> "askYesNo", answer |-> answer, defaultYes |-> defaultYes,
                  done |-> FALSE, result |-> FALSE]

\* rl.question's callback resolves the promise
AskYesNo ==
    /\ call.fn = "askYesNo"
    /\ ~call.done
    /\ call' = [call EXCEPT !.done = TRUE,
                            !.result = askYesNo(call.answer, call.defaultYes)]
    /\ UNCHANGED << serverVars, fileVars >>

NextAsk == AskYesNo

SpecAsk == InitAsk /\ [][NextAsk]_vars

-----------------------------------------------------------------------------
(* C18 *)

\* a string of white space only (the empty string included)
Blank(s) == \A i \in 1..Len(s) : IsSpace(s[i])

\* s is word w, case apart, with white space around it
IsWord(s, w) ==
    \E lo \in 0..Len(s) :
        /\ lo + Len(w) <= Len(s)
        /\ \A i \in 1..lo : IsSpace(s[i])
        /\ \A i \in (lo + Len(w) + 1)..Len(s) : IsSpace(s[i])
        /\ CaseEq(SubSeq(s, lo + 1, lo + Len(w)), w)

\* C18: askYesNo resolves to the default for an empty or blank answer, and
\* for every other answer to true exactly when the answer, trimmed and case
\* apart, is "y" or "yes", whatever the default.
C18_AskYesNo ==
    (call.fn = "askYesNo" /\ call.done) =>
        call.result = IF Blank(call.answer) THEN call.defaultYes
                      ELSE \/ IsWord(call.answer, << "y" >>)
                           \/ IsWord(call.answer, << "y", "e", "s" >>)

\* an unrecognised answer against a default of yes, resolved to no
C18_Witness ==
    /\ call.fn = "askYesNo" /\ call.done
    /\ call.answer = << " ", "n" >>
    /\ call.defaultYes
    /\ ~call.result

-----------------------------------------------------------------------------
(* SpecMatch: domainMatchesPattern compares one domain with one pattern *)

\* String.prototype.startsWith
startsWith(s, prefix) == Len(s) >= Len(prefix) /\ SubSeq(s, 1, Len(prefix)) = prefix

\* String.prototype.endsWith
endsWith(s, suffix) ==
    Len(s) >= Len(suffix) /\ SubSeq(s, Len(s) - Len(suffix) + 1, Len(s)) = suffix

\* faulty variant: the domain need not be longer than the suffix
domainMatchesPatternNoLength(domain, pattern) ==
    LET d == toLowerCase(domain)
        p == toLowerCase(pattern)
    IN  IF d = << >> \/ p = << >> THEN FALSE
        ELSE IF startsWith(p, << "*", "." >>)
             THEN LET suffix == SubSeq(p, 2, Len(p)) IN endsWith(d, suffix)
             ELSE d = p

\* domainMatchesPattern(domain, pattern)
domainMatchesPattern(domain, pattern) ==
    LET d == toLowerCase(domain)
        p == toLowerCase(pattern)
    IN  IF d = << >> \/ p = << >> THEN FALSE
        ELSE IF startsWith(p, << "*", "." >>)
             THEN LET suffix == SubSeq(p, 2, Len(p))
                  IN  endsWith(d, suffix) /\ Len(d) > Len(suffix)
             ELSE d = p

\* hasCertificateForDomain(domain, certEntries)
hasCertificateForDomain(domain, certEntries) ==
    \E e \in 1..Len(certEntries) : \E j \in 1..Len(certEntries[e].domains) :
        domainMatchesPattern(domain, certEntries[e].domains[j])

\* the characters of domains and patterns
NameChars == { "a", "A", ".", "*" }

\* domains and patterns
Names == StringsUpTo(NameChars, MaxNameLen)

InitMatch ==
    /\ NotServing
    /\ \E domain \in Names, pattern \in Names :
          call = [fn |-> "domainMatchesPattern", domain |-> domain,
                  pattern |-> pattern, done |-> FALSE, result |-> FALSE]

DomainMatchesPattern ==
    /\ call.fn = "domainMatchesPattern"
    /\ ~call.done
    /\ call' = [call EXCEPT !.done = TRUE,
                            !.result = domainMatchesPattern(call.domain, call.pattern)]
    /\ UNCHANGED << serverVars, fileVars >>

NextMatch == DomainMatchesPattern

SpecMatch == InitMatch /\ [][NextMatch]_vars

-----------------------------------------------------------------------------
(* C19 *)

\* pattern p is a wildcard "*.rest"
IsWildcard(p) == Len(p) >= 2 /\ p[1] = "*" /\ p[2] = "."

\* domain d ends, case apart, with the ".rest" of wildcard p and is longer
UnderWildcard(d, p) ==
    /\ IsWildcard(p)
    /\ Len(d) > Len(p) - 1
    /\ CaseEq(SubSeq(d, Len(d) - Len(p) + 2, Len(d)), SubSeq(p, 2, Len(p)))

\* C19: domainMatchesPattern is true exactly when neither string is empty and
\* the two are equal ignoring case or the domain ends with the ".rest" of a
\* "*.rest" pattern and is strictly longer than it; so a wildcard never matches
\* its bare parent domain.
C19_DomainMatchesPattern ==
    (call.fn = "domainMatchesPattern" /\ call.done) =>
        /\ call.result = ( /\ call.domain # << >> /\ call.pattern # << >>
                           /\ \/ CaseEq(call.domain, call.pattern)
                              \/ UnderWildcard(call.domain, call.pattern) )
        /\ ( /\ IsWildcard(call.pattern)
             /\ CaseEq(call.domain, SubSeq(call.pattern, 3, Len(call.pattern))) )
               => ~call.result

\* a subdomain in upper case matched by a wildcard
C19_Witness ==
    /\ call.fn = "domainMatchesPattern" /\ call.done
    /\ call.domain = << "A", ".", "a" >>
    /\ call.pattern = << "*", ".", "a" >>
    /\ call.result

-----------------------------------------------------------------------------
(* SpecSNI: attachCertificateContexts registers the SNI contexts *)

\* the state of attachCertificateContexts: the Set `assigned` and the
\* server.addContext calls made so far (name, and the entry whose key and
\* certificate the context holds)
NoContexts == [assigned |-> {}, contexts |-> << >>]

\* faulty variant: a domain already assigned is registered again
addDomainContextAgain(st, e, domain) ==
    LET normalized == toLowerCase(trim(domain)) IN
    IF normalized = << >> THEN st
    ELSE [assigned |-> st.assigned \cup { normalized },
          contexts |-> Append(st.contexts, [name |-> normalized, entry |-> e])]

\* the body of domains.forEach for one domain of certificate entry number e
addDomainContext(st, e, domain) ==
    LET normalized == toLowerCase(trim(domain)) IN
    IF normalized = << >> \/ normalized \in st.assigned THEN st
    ELSE [assigned |-> st.assigned \cup { normalized },
          contexts |-> Append(st.contexts, [name |-> normalized, entry |-> e])]

\* domains.forEach over domains[j..] of entry number e
RECURSIVE addDomainContexts(_, _, _, _)
addDomainContexts(st, certEntries, e, j) ==
    IF j > Len(certEntries[e].domains) THEN st
    ELSE addDomainContexts(addDomainContext(st, e, certEntries[e].domains[j]),
                           certEntries, e, j + 1)

\* certEntries.forEach over certEntries[e..]
RECURSIVE addEntryContexts(_, _, _)
addEntryContexts(st, certEntries, e) ==
    IF e > Len(certEntries) THEN st
    ELSE addEntryContexts(addDomainContexts(st, certEntries, e, 1), certEntries, e + 1)

\* attachCertificateContexts(server, certEntries): the contexts of the server
attachCertificateContexts(certEntries) ==
    addEntryContexts(NoContexts, certEntries, 1).contexts

\* the domain lists of certificate entries
CertDomainLists ==
    { << >>, << dA >>, << dUpperA, dB >>, << dPaddedA, dA >>, << dBlank, dUpperB >> }

InitSNI ==
    /\ \E n \in 0..MaxCertEntries : \E lists \in [1..n -> CertDomainLists] :
          certificateEntries = [e \in 1..n |-> [domains |-> lists[e]]]
    /\ proxyAppDescriptors = << >>
    /\ staticAppDescriptors = << >>
    /\ serverDescriptors = << >>
    /\ domainToApp = EmptyMap
    /\ certDomainSet = {}
    /\ phase = "offline"
    /\ q = NoRequest
    /\ q2 = NoRequest
    /\ call = NoCall
    /\ cfgFile = NoFile
    /\ disk = << >>
    /\ certRoot = NoRoot

\* main(): attachCertificateContexts(server, certificateEntries)
AttachCertificateContexts ==
    /\ call = NoCall
    /\ call' = [fn |-> "attachCertificateContexts",
                contexts |-> attachCertificateContexts(certificateEntries)]
    /\ UNCHANGED << serverVars, fileVars >>

NextSNI == AttachCertificateContexts

SpecSNI == InitSNI /\ [][NextSNI]_vars

-----------------------------------------------------------------------------
(* C20 *)

\* the certificate entries (by number) that declare normalized domain n
EntriesDeclaring(n) ==
    { e \in 1..Len(certificateEntries) :
        \E j \in 1..Len(certificateEntries[e].domains) :
            normalize(certificateEntries[e].domains[j]) = n }

\* the registrations of name n among the server's contexts
ContextsOf(n) == { x \in 1..Len(call.contexts) : call.contexts[x].name = n }

\* C20: after attachCertificateContexts every distinct normalized domain has
\* exactly one registered context, that of the earliest certificate entry
\* declaring it, and nothing is registered under any other name.
C20_FirstClaimWins ==
    call.fn = "attachCertificateContexts" =>
        /\ \A e \in 1..Len(certificateEntries) :
           \A j \in 1..Len(certificateEntries[e].domains) :
              LET n == normalize(certificateEntries[e].domains[j]) IN
              n # << >> =>
                 /\ Cardinality(ContextsOf(n)) = 1
                 /\ \A x \in ContextsOf(n) :
                       /\ call.contexts[x].entry \in EntriesDeclaring(n)
                       /\ \A e2 \in EntriesDeclaring(n) : call.contexts[x].entry <= e2
        /\ \A x \in 1..Len(call.contexts) :
              /\ call.contexts[x].name # << >>
              /\ EntriesDeclaring(call.contexts[x].name) # {}

\* two entries declare the same domain in different spellings; the first one
\* holds its context
C20_Witness ==
    /\ call.fn = "attachCertificateContexts"
    /\ Len(certificateEntries) >= 2
    /\ certificateEntries[1].domains = << dUpperA, dB >>
    /\ certificateEntries[2].domains = << dPaddedA, dA >>
    /\ \E x \in 1..Len(call.contexts) :
          call.contexts[x].name = dA /\ call.contexts[x].entry = 1

-----------------------------------------------------------------------------
(* SpecNormalize: parseStaticsAndProxiesDomains reads one definition file,    *)
(* time after time with no other edit of the file                              *)

\* contents.split(/\r?\n/): the lines lie between the "\n" of the contents,
\* and a "\r" right before a "\n" belongs to the line end
splitLines(s) ==
    LET breaks == { i \in 1..Len(s) : s[i] = "\n" }
        n      == Cardinality(breaks)
        brk(k) == IF k = 0 THEN 0
                  ELSE IF k = n + 1 THEN Len(s) + 1
                  ELSE CHOOSE i \in breaks : Cardinality({ j \in breaks : j <= i }) = k
        raw(k) == SubSeq(s, brk(k - 1) + 1, brk(k) - 1)
    IN  [k \in 1..(n + 1) |->
            IF k <= n /\ raw(k) # << >> /\ raw(k)[Len(raw(k))] = "\r"
            THEN dropLast(raw(k), 1) ELSE raw(k)]

\* line.split(' ')[0]
RECURSIVE splitSpaceFirst(_)
splitSpaceFirst(s) ==
    IF s = << >> THEN << >>
    ELSE IF Head(s) = " " THEN << >>
    ELSE << Head(s) >> \o splitSpaceFirst(Tail(s))

\* lines.join('\n')
RECURSIVE joinLines(_)
joinLines(lines) ==
    IF Len(lines) = 0 THEN << >>
    ELSE IF Len(lines) = 1 THEN lines[1]
    ELSE lines[1] \o << "\n" >> \o joinLines(Tail(lines))

\* s starts with prefix, ignoring case (a regular expression /^prefix/i)
startsWithIgnoringCase(s, prefix) ==
    Len(s) >= Len(prefix) /\ toLowerCase(SubSeq(s, 1, Len(prefix))) = prefix

\* s ends with suffix, ignoring case (a regular expression /suffix$/i)
endsWithIgnoringCase(s, suffix) ==
    /\ Len(s) >= Len(suffix)
    /\ toLowerCase(SubSeq(s, Len(s) - Len(suffix) + 1, Len(s))) = suffix

schemeHttp == << "h", "t", "t", "p", ":", "/", "/" >>
schemeHttps == << "h", "t", "t", "p", "s", ":", "/", "/" >>

\* domain.replace(/^https?:\/\//i, ''): one scheme prefix is removed
stripScheme(s) ==
    IF startsWithIgnoringCase(s, schemeHttps) THEN dropFirst(s, Len(schemeHttps))
    ELSE IF startsWithIgnoringCase(s, schemeHttp) THEN dropFirst(s, Len(schemeHttp))
    ELSE s

\* domain.replace(/\/+$/, '')
RECURSIVE stripSlashes(_)
stripSlashes(s) ==
    IF s # << >> /\ s[Len(s)] = "/" THEN stripSlashes(dropLast(s, 1)) ELSE s

\* sanitizeDomain(value)
sanitizeDomain(value) == stripSlashes(stripScheme(trim(value)))

\* the body of rawLines.forEach for one line; acc holds domains,
\* rewrittenLines and changed
parseLine(acc, rawLine) ==
    LET line    == splitSpaceFirst(rawLine)
        trimmed == trim(line)
        changed == acc.changed \/ trimmed # line
    IN  IF \/ trimmed = << >>
           \/ startsWith(trimmed, << "#" >>)
           \/ startsWith(trimmed, << "/", "/" >>)
        THEN [acc EXCEPT !.changed = changed,
                         !.rewrittenLines = Append(@, line)]
        ELSE LET sanitized == sanitizeDomain(trimmed) IN
             [changed |-> changed \/ sanitized # trimmed,
              rewrittenLines |-> Append(acc.rewrittenLines, sanitized),
              domains |-> IF sanitized # << >> THEN Append(acc.domains, sanitized)
                          ELSE acc.domains]

\* rawLines.forEach over rawLines[i..]
RECURSIVE parseLines(_, _, _)
parseLines(acc, rawLines, i) ==
    IF i > Len(rawLines) THEN acc
    ELSE parseLines(parseLine(acc, rawLines[i]), rawLines, i + 1)

extHtsTxt == << ".", "h", "t", "s", ".", "t", "x", "t" >>
extTxt == << ".", "t", "x", "t" >>

\* filename.replace(/\.hts\.txt$/i, '').replace(/\.txt$/i, '')
fallbackBase(filename) ==
    LET a == IF endsWithIgnoringCase(filename, extHtsTxt)
             THEN dropLast(filename, Len(extHtsTxt)) ELSE filename
    IN  IF endsWithIgnoringCase(a, extTxt) THEN dropLast(a, Len(extTxt)) ELSE a

\* fs.readFileSync(filePath, 'utf8') throws
Unreadable == << "EACCES" >>

\* parseStaticsAndProxiesDomains(filePath, filename, filetype) on a file of
\* the given contents: the domains it returns, whether it calls
\* fs.writeFileSync, and with what
parseStaticsAndProxiesDomains(contents, filename) ==
    LET acc == parseLines([changed |-> FALSE, rewrittenLines |-> << >>, domains |-> << >>],
                          splitLines(contents), 1)
        updatedContent == joinLines(acc.rewrittenLines)
        base == fallbackBase(filename)
        fallback == IF base # << >> THEN << base >> ELSE << >>
    IN  IF contents = Unreadable
        THEN [write |-> FALSE, updatedContent |-> contents, domains |-> fallback]
        ELSE [write |-> acc.changed /\ updatedContent # contents,
              updatedContent |-> updatedContent,
              domains |-> IF Len(acc.domains) > 0 THEN acc.domains ELSE fallback]

\* what definition files are made of
Pieces ==
    { schemeHttp, << "H", "t", "t", "p", "S", ":", "/", "/" >>, << "a" >>, << "/" >>,
      << " " >>, << "\t" >>, << "\n" >>, << "\r" >>, << "#" >>, << "#", " ", "c" >>,
      << "A" >> }

\* the concatenation of a sequence of pieces
RECURSIVE concat(_)
concat(pieces) == IF pieces = << >> THEN << >> ELSE Head(pieces) \o concat(Tail(pieces))

\* the contents of definition files
FileContents == { concat(ps) : ps \in StringsUpTo(Pieces, MaxPieces) } \cup { Unreadable }

\* the descriptor suffixes of the discovery patterns of DEFAULT_CONFIG
extStaticHts == << ".", "s", "t", "a", "t", "i", "c", ".", "h", "t", "s" >>
extProxyHts == << ".", "p", "r", "o", "x", "y", ".", "h", "t", "s" >>

\* the names of definition files
FileNames == { << "b" >> \o extHtsTxt, << ".", "T", "X", "T" >>, << "b" >> \o extStaticHts }

InitNormalize ==
    /\ NotServing
    /\ \E contents \in FileContents, filename \in FileNames, writable \in BOOLEAN :
          call = [fn |-> "parseStaticsAndProxiesDomains", file |-> contents,
                  filename |-> filename, writable |-> writable, parses |-> << >>]

\* one call of parseStaticsAndProxiesDomains; fs.writeFileSync throws, and
\* the throw is caught, when the file is not writable
ParseStaticsAndProxiesDomains ==
    /\ call.fn = "parseStaticsAndProxiesDomains"
    /\ Len(call.parses) < MaxParses
    /\ LET res == parseStaticsAndProxiesDomains(call.file, call.filename)
           rewrote == res.write /\ call.writable
       IN  call' = [call EXCEPT
                      !.file = IF rewrote THEN res.updatedContent ELSE @,
                      !.parses = Append(@, [read |-> call.file, domains |-> res.domains,
                                            rewrote |-> rewrote])]
    /\ UNCHANGED << serverVars, fileVars >>

NextNormalize == ParseStaticsAndProxiesDomains

SpecNormalize == InitNormalize /\ [][NextNormalize]_vars

-----------------------------------------------------------------------------
(* C17 *)

\* C17: parsing a definition file a second time with no intervening edit
\* returns the same domain list as the first parse and does not rewrite the
\* file again.
C17_NormalizationIdempotent ==
    (call.fn = "parseStaticsAndProxiesDomains" /\ Len(call.parses) >= 2) =>
        /\ call.parses[2].domains = call.parses[1].domains
        /\ ~call.parses[2].rewrote

-----------------------------------------------------------------------------
(* SpecConfig: writeConfigFile writes a descriptor set to the configuration  *)
(* file, parseConfigFile reads it back, writeConfigFile writes what was read *)

\* a descriptor without a target (null, undefined or false in the code)
NoTarget == << "undefined" >>

\* path.dirname of an absolute path: up to its last '/', or "/" itself
RECURSIVE dirname(_)
dirname(id) ==
    IF id = << >> THEN << "." >>
    ELSE IF id[Len(id)] = "/"
         THEN IF Len(id) = 1 THEN << "/" >> ELSE dropLast(id, 1)
    ELSE dirname(dropLast(id, 1))

typeProxy == << "p", "r", "o", "x", "y" >>
typeStatic == << "s", "t", "a", "t", "i", "c" >>
typeExpress == << "e", "x", "p", "r", "e", "s", "s" >>
certMark == << "(", "c", "e", "r", "t", ":" >>

\* the line of one domain of an entry
domainLine(domain, certEntries) ==
    LET present == hasCertificateForDomain(domain, certEntries)
    IN  << " ", " ", " ", " ", "-", " " >> \o domain \o << " ", "(", "c", "e", "r", "t", ":", " " >>
            \o (IF present THEN << "p", "r", "e", "s", "e", "n", "t" >> ELSE << "m", "i", "s", "s", "i", "n", "g" >>) \o << ")" >>

\* pushEntry(descriptor, type): the lines of one entry
pushEntry(descriptor, type, certEntries) ==
    LET id == descriptor.absolutePath IN
    << id, << " ", " ", "t", "y", "p", "e", ":", " " >> \o type, << " ", " ", "d", "i", "r", ":", " " >> \o dirname(id) >>
    \o (IF type = typeProxy /\ descriptor.target # NoTarget /\ descriptor.target # << >>
        THEN << << " ", " ", "t", "a", "r", "g", "e", "t", ":", " " >> \o descriptor.target >> ELSE << >>)
    \o << << " ", " ", "d", "o", "m", "a", "i", "n", "s", ":" >> >>
    \o (IF Len(descriptor.domains) = 0 THEN << << " ", " ", " ", " ", "-", " ", "(", "n", "o", "n", "e", ")", " ", "(", "c", "e", "r", "t", ":", " ", "n", "/", "a", ")" >> >>
        ELSE [j \in 1..Len(descriptor.domains) |->
                 domainLine(descriptor.domains[j], certEntries)])
    \o << << >> >>

\* descriptors.forEach(pushEntry) over descriptors[i..]
RECURSIVE pushEntries(_, _, _, _)
pushEntries(descriptors, type, certEntries, i) ==
    IF i > Len(descriptors) THEN << >>
    ELSE pushEntry(descriptors[i], type, certEntries)
         \o pushEntries(descriptors, type, certEntries, i + 1)

\* writeConfigFile(serverDescriptors, staticDescriptors, proxyDescriptors,
\* certEntries): what it writes to CONFIG_PATH
writeConfigFile(servers, statics, proxies, certEntries) ==
    joinLines(pushEntries(proxies, typeProxy, certEntries, 1)
              \o pushEntries(statics, typeStatic, certEntries, 1)
              \o pushEntries(servers, typeExpress, certEntries, 1))

\* trimmed.split(':').slice(1).join(':'): what follows the first ':'
RECURSIVE afterFirstColon(_)
afterFirstColon(s) ==
    IF s = << >> THEN << >>
    ELSE IF Head(s) = ":" THEN Tail(s)
    ELSE afterFirstColon(Tail(s))

\* domainPart.replace(/\(cert:.*\)$/i, ''): from the first "(cert:" on, when
\* the string ends with ')' after it
RECURSIVE stripCert(_, _)
stripCert(s, i) ==
    IF i > Len(s) THEN s
    ELSE IF /\ startsWithIgnoringCase(dropFirst(s, i - 1), certMark)
            /\ Len(s) >= i + Len(certMark)
            /\ s[Len(s)] = ")"
         THEN SubSeq(s, 1, i - 1)
    ELSE stripCert(s, i + 1)

\* no entry is being read
NoEntry == [id |-> << >>, type |-> << >>, target |-> NoTarget, domains |-> << >>,
            none |-> TRUE]

\* flush(): the entry being read is kept when it has a type and an id
flush(st) ==
    [st EXCEPT !.entries = IF ~st.curr.none /\ st.curr.type # << >> /\ st.curr.id # << >>
                           THEN Append(@, st.curr) ELSE @,
               !.curr = NoEntry]

\* the body of lines.forEach for one line; an indented line before any
\* entry makes it throw (curr is null)
readLine(st, line) ==
    LET trimmed == trim(line) IN
    IF st.threw THEN st
    ELSE IF trimmed = << >> THEN flush(st)
    ELSE IF ~startsWith(line, << " " >>)
         THEN [flush(st) EXCEPT !.curr = [NoEntry EXCEPT !.id = trimmed, !.none = FALSE]]
    ELSE IF startsWith(trimmed, << "t", "y", "p", "e", ":" >>)
         THEN IF st.curr.none THEN [st EXCEPT !.threw = TRUE]
              ELSE [st EXCEPT !.curr.type = trim(afterFirstColon(trimmed))]
    ELSE IF startsWith(trimmed, << "t", "a", "r", "g", "e", "t", ":" >>)
         THEN IF st.curr.none THEN [st EXCEPT !.threw = TRUE]
              ELSE [st EXCEPT !.curr.target = trim(afterFirstColon(trimmed))]
    ELSE IF startsWith(trimmed, << "d", "i", "r", ":" >>)
         THEN IF st.curr.none THEN [st EXCEPT !.threw = TRUE] ELSE st
    ELSE IF startsWith(trimmed, << "-" >>)
         THEN LET domainPart  == trim(dropFirst(trimmed, 1))
                  withoutCert == trim(stripCert(domainPart, 1))
              IN  IF withoutCert # << >> /\ withoutCert # << "(", "n", "o", "n", "e", ")" >>
                  THEN IF st.curr.none THEN [st EXCEPT !.threw = TRUE]
                       ELSE [st EXCEPT !.curr.domains = Append(@, withoutCert)]
                  ELSE st
    ELSE st

\* lines.forEach over lines[i..]
RECURSIVE readLines(_, _, _)
readLines(st, lines, i) ==
    IF i > Len(lines) THEN st
    ELSE readLines(readLine(st, lines[i]), lines, i + 1)

\* mapEntries(type): the entries of one type, as descriptors; every id the
\* program writes is an absolute path
RECURSIVE mapEntries(_, _)
mapEntries(entries, type) ==
    IF entries = << >> THEN << >>
    ELSE (IF Head(entries).type = type
          THEN << [absolutePath |-> Head(entries).id, domains |-> Head(entries).domains,
                   target |-> Head(entries).target] >>
          ELSE << >>)
         \o mapEntries(Tail(entries), type)

NoDescriptors == [servers |-> << >>, statics |-> << >>, proxies |-> << >>, threw |-> FALSE]

\* parseConfigFile() on the given file
parseConfigFile(file) ==
    IF file = NoFile THEN NoDescriptors
    ELSE LET st == flush(readLines([entries |-> << >>, curr |-> NoEntry, threw |-> FALSE],
                                   splitLines(file), 1))
         IN  IF st.threw THEN [NoDescriptors EXCEPT !.threw = TRUE]
             ELSE [servers |-> mapEntries(st.entries, typeExpress),
                   statics |-> mapEntries(st.entries, typeStatic),
                   proxies |-> mapEntries(st.entries, typeProxy),
                   threw |-> FALSE]

\* the absolute paths of artifacts
Paths == { << "/", "p" >>, << "/", "d", "/", "s" >> }

\* the domain lists of the descriptors written to the configuration
ConfigDomainLists == { << >>, << dA >>, << dUpperA, dB >>, << dPaddedA >>, << dBlank >> }

\* the targets of proxy descriptors: parts[parts.length - 3] of the path
Targets == { NoTarget, << "8" >> }

\* the descriptors of one kind
ConfigDescriptors(targets) ==
    [absolutePath : Paths, domains : ConfigDomainLists, target : targets]

InitConfig ==
    /\ proxyAppDescriptors = << >>
    /\ staticAppDescriptors = << >>
    /\ serverDescriptors = << >>
    /\ certificateEntries \in CertChoices
    /\ domainToApp = EmptyMap
    /\ certDomainSet = {}
    /\ phase = "offline"
    /\ q = NoRequest
    /\ q2 = NoRequest
    /\ cfgFile = NoFile
    /\ disk = << >>
    /\ certRoot = NoRoot
    /\ \E np \in 0..MaxConfigEntries :
       \E ns \in 0..(MaxConfigEntries - np) :
       \E ne \in 0..(MaxConfigEntries - np - ns) :
       \E p \in [1..np -> ConfigDescriptors(Targets)],
          s \in [1..ns -> ConfigDescriptors({ NoTarget })],
          e \in [1..ne -> ConfigDescriptors({ NoTarget })] :
          call = [fn |-> "writeConfigFile", step |-> "start",
                  set |-> [servers |-> e, statics |-> s, proxies |-> p, threw |-> FALSE],
                  first |-> NoFile, parsed |-> NoDescriptors]

\* updateConfig(): writeConfigFile(servers, statics, proxies, certificateEntries)
WriteConfigFile ==
    /\ call.fn = "writeConfigFile" /\ call.step = "start"
    /\ cfgFile' = writeConfigFile(call.set.servers, call.set.statics, call.set.proxies,
                                  certificateEntries)
    /\ call' = [call EXCEPT !.step = "written", !.first = cfgFile']
    /\ UNCHANGED << serverVars, disk, certRoot >>

\* main(): parseConfigFile()
ParseConfigFile ==
    /\ call.fn = "writeConfigFile" /\ call.step = "written"
    /\ call' = [call EXCEPT !.step = "parsed", !.parsed = parseConfigFile(cfgFile)]
    /\ UNCHANGED << serverVars, fileVars >>

\* writeConfigFile on what parseConfigFile returned
RewriteConfigFile ==
    /\ call.fn = "writeConfigFile" /\ call.step = "parsed"
    /\ ~call.parsed.threw
    /\ cfgFile' = writeConfigFile(call.parsed.servers, call.parsed.statics,
                                  call.parsed.proxies, certificateEntries)
    /\ call' = [call EXCEPT !.step = "rewritten"]
    /\ UNCHANGED << serverVars, disk, certRoot >>

NextConfig ==
    \/ WriteConfigFile
    \/ ParseConfigFile
    \/ RewriteConfigFile

SpecConfig == InitConfig /\ [][NextConfig]_vars

-----------------------------------------------------------------------------
(* C16 *)

\* C16: parseConfigFile applied to the output of writeConfigFile yields the
\* descriptor set that was written (same paths, kinds, ordered domain lists
\* and targets), and writing the parsed set again produces an identical file.
C16_RoundTrip ==
    /\ (call.fn = "writeConfigFile" /\ call.step \in { "parsed", "rewritten" })
          => call.parsed = call.set
    /\ (call.fn = "writeConfigFile" /\ call.step = "rewritten")
          => cfgFile = call.first

-----------------------------------------------------------------------------
(* SpecRescan: the process is started, with --update (updateConfig: walk,    *)
(* prompts, rewrite of the configuration) or without (main: serve what the   *)
(* configuration says), on a disk that does not change                       *)

\* s.split(c): the parts of s between its characters c
split(s, c) ==
    LET breaks == { i \in 1..Len(s) : s[i] = c }
        n      == Cardinality(breaks)
        brk(k) == IF k = 0 THEN 0
                  ELSE IF k = n + 1 THEN Len(s) + 1
                  ELSE CHOOSE i \in breaks : Cardinality({ j \in breaks : j <= i }) = k
    IN  [k \in 1..(n + 1) |-> SubSeq(s, brk(k - 1) + 1, brk(k) - 1)]

\* path.basename of an absolute path
basename(abs) == LET parts == split(abs, "/") IN parts[Len(parts)]

\* target=absolutePath.split('.'); target=target[target.length-3].trim()
\* (the paths of proxy definitions have three parts at least)
proxyTarget(abs) == LET parts == split(abs, ".") IN trim(parts[Len(parts) - 2])

\* loadDescriptorsOfKind(kind, PATTERN): the files of the kind the walk finds
RECURSIVE loadDescriptorsOfKind(_, _)
loadDescriptorsOfKind(files, kind) ==
    IF files = << >> THEN << >>
    ELSE (IF Head(files).kind = kind /\ Head(files).found
          THEN << [type |-> kind, filename |-> basename(Head(files).path),
                   absolutePath |-> Head(files).path, domains |-> Head(files).domains,
                   target |-> IF kind = typeProxy THEN proxyTarget(Head(files).path)
                              ELSE NoTarget] >>
          ELSE << >>)
         \o loadDescriptorsOfKind(Tail(files), kind)

\* fs.existsSync(abs)
existsSync(files, abs) == \E i \in 1..Len(files) : files[i].path = abs

\* parseDomainsFromDisk(abs), for a file that exists
parseDomainsFromDisk(files, abs) ==
    files[CHOOSE i \in 1..Len(files) : files[i].path = abs].domains

\* existingMap.has(abs), existingMap being new Map(list.map(...))
mapHas(list, abs) == \E i \in 1..Len(list) : list[i].absolutePath = abs

\* existingMap.get(abs): of two entries with one path the later one stays
existingGet(list, abs) ==
    list[CHOOSE i \in 1..Len(list) :
            /\ list[i].absolutePath = abs
            /\ \A j \in (i + 1)..Len(list) : list[j].absolutePath # abs]

\* existingMap.entries(): one entry per path, in the order of first insertion
RECURSIVE existingEntries(_, _)
existingEntries(list, i) ==
    IF i > Len(list) THEN << >>
    ELSE (IF \E j \in 1..(i - 1) : list[j].absolutePath = list[i].absolutePath
          THEN << >> ELSE << existingGet(list, list[i].absolutePath) >>)
         \o existingEntries(list, i + 1)

\* stored.filter((d) => !other.includes(d)), and the like
notIncluded(list, other) ==
    SelectSeq(list, LAMBDA d : ~\E j \in 1..Len(other) : other[j] = d)

\* the line the operator types at the next prompt (nothing: the Enter key)
nextAnswer(st, answers) ==
    IF Len(st.prompts) < Len(answers) THEN answers[Len(st.prompts) + 1] ELSE << >>

\* await askYesNo(question, defaultYes): the prompt is on record
prompt(st, answers, what, abs, defaultYes) ==
    [st EXCEPT !.prompts = Append(@, [what |-> what, abs |-> abs, defaultYes |-> defaultYes,
                                      answer |-> askYesNo(nextAnswer(st, answers),
                                                          defaultYes)])]

\* the answer to the prompt just asked
lastAnswer(st) == st.prompts[Len(st.prompts)].answer

\* faulty variant: a reordered domain list counts as a change
domainsDifferOrdered(current, stored) == current # stored

\* additions.length || removals.length
domainsDiffer(current, stored) ==
    notIncluded(current, stored) # << >> \/ notIncluded(stored, current) # << >>

\* if(!answer){continue;}
declinedAdd(st, obj) == st

\* the body of the first loop of reconcileDescriptors for one discovered file
reconcileDiscovered(st, type, d, existing, answers) ==
    LET abs == d.absolutePath
        target == IF type = typeProxy THEN proxyTarget(d.absolutePath) ELSE NoTarget
        obj(domains) == [type |-> type, filename |-> d.filename, absolutePath |-> abs,
                         domains |-> domains,
                         target |-> IF target = << >> THEN NoTarget ELSE target]
        seen == [st EXCEPT !.seenSet = @ \cup { abs }]
    IN  IF mapHas(existing, abs)
        THEN LET stored == existingGet(existing, abs).domains IN
             IF domainsDiffer(d.domains, stored)
             THEN LET asked == prompt(seen, answers, "update", abs, TRUE) IN
                  [asked EXCEPT !.finalList =
                      Append(@, obj(IF lastAnswer(asked) THEN d.domains ELSE stored))]
             ELSE [seen EXCEPT !.finalList = Append(@, obj(d.domains))]
        ELSE LET asked == prompt(seen, answers, "add", abs, TRUE) IN
             IF ~lastAnswer(asked) THEN declinedAdd(asked, obj(d.domains))
             ELSE [asked EXCEPT !.finalList = Append(@, obj(d.domains))]

\* the first loop of reconcileDescriptors over discovered[i..]
RECURSIVE reconcileAllDiscovered(_, _, _, _, _, _)
reconcileAllDiscovered(st, type, discovered, i, existing, answers) ==
    IF i > Len(discovered) THEN st
    ELSE reconcileAllDiscovered(
             reconcileDiscovered(st, type, discovered[i], existing, answers),
             type, discovered, i + 1, existing, answers)

\* the body of the second loop of reconcileDescriptors for one entry of the
\* persisted map; the object pushed names `target`, which is declared in the
\* body of the first loop only: evaluating it throws a ReferenceError
reconcileMissing(st, type, entry, files, answers) ==
    IF st.threw \/ entry.absolutePath \in st.seenSet THEN st
    ELSE LET asked == prompt(st, answers, "keep", entry.absolutePath, FALSE) IN
         IF ~lastAnswer(asked) THEN asked
         ELSE [asked EXCEPT !.threw = TRUE]

\* the second loop of reconcileDescriptors over the entries [i..]
RECURSIVE reconcileAllMissing(_, _, _, _, _, _)
reconcileAllMissing(st, type, entries, i, files, answers) ==
    IF i > Len(entries) THEN st
    ELSE reconcileAllMissing(reconcileMissing(st, type, entries[i], files, answers),
                             type, entries, i + 1, files, answers)

\* reconcileDescriptors({label, type, discovered, existingMap, finalList,
\* seenSet, parseDomainsFromDisk}) with an empty finalList and seenSet
reconcileDescriptors(st, type, discovered, existing, files, answers) ==
    reconcileAllMissing(
        reconcileAllDiscovered([st EXCEPT !.finalList = << >>, !.seenSet = {}],
                               type, discovered, 1, existing, answers),
        type, existingEntries(existing, 1), 1, files, answers)

\* loadServerDescriptor(abs) rejects: the module's init() failed, it gave no
\* app/expressApp/handler function, or it declared no domain
loadServerDescriptorThrows(file) == file.loads # "ok"

\* parseExpressesDomains(abs, ...): a rejection of loadServerDescriptor is
\* caught and logged, `descriptor` stays undefined, and `descriptor.domains`
\* throws a TypeError
parseExpressesDomainsThrows(file) == loadServerDescriptorThrows(file)

\* loadDescriptorsOfKind(kind, PATTERN) rejects: parseDomainsOfKind threw for
\* a file the walk found
loadDescriptorsOfKindThrows(files, kind) ==
    \E i \in 1..Len(files) :
        /\ files[i].kind = kind /\ files[i].found
        /\ kind = typeExpress /\ parseExpressesDomainsThrows(files[i])

\* one turn of the loop over the kinds in reconcileConfigInteractive
reconcileKind(st, type, list, files, answers) ==
    IF st.threw THEN st
    ELSE IF loadDescriptorsOfKindThrows(files, type) THEN [st EXCEPT !.threw = TRUE]
    ELSE LET discovered == loadDescriptorsOfKind(files, type)
             done == reconcileDescriptors(st, type, discovered, list, files, answers)
         IN  [done EXCEPT !.passes = Append(@, [type |-> type, existing |-> list,
                                                discovered |-> discovered,
                                                finalList |-> done.finalList])]

\* reconcileConfigInteractive(), cfg being what its parseConfigFile() returns:
\* proxy, static, express in this order
reconcileConfigInteractive(cfg, files, answers) ==
    LET st0 == [prompts |-> << >>, passes |-> << >>, finalList |-> << >>, seenSet |-> {},
                threw |-> cfg.threw]
        st1 == reconcileKind(st0, typeProxy, cfg.proxies, files, answers)
        st2 == reconcileKind(st1, typeStatic, cfg.statics, files, answers)
    IN  reconcileKind(st2, typeExpress, cfg.servers, files, answers)

\* the descriptors of one kind a completed reconciliation returns
resultsOf(st, type) ==
    LET of == SelectSeq(st.passes, LAMBDA pass : pass.type = type) IN
    IF of = << >> THEN << >> ELSE of[1].finalList

\* the definition files: a proxy definition, a static definition and an
\* application module
proxyPath == << "/", "a", ".", "8", ".", "p", "r", "o", "x", "y", ".", "h", "t", "s" >>
staticPath == << "/", "d", "/", "s", ".", "s", "t", "a", "t", "i", "c", ".", "h", "t", "s" >>
expressPath == << "/", "e", ".", "h", "t", "s", ".", "j", "s" >>

\* the paths of the scenario; each one has one prompt at most in a rescan
RescanPaths == { proxyPath, staticPath, expressPath }

\* the domain lists of definition files
DiskDomainLists == { << dA >>, << dB, dA >> }

\* the domain lists of the entries of the configuration the scenario starts with
StoredDomainLists == { << dA >>, << dA, dB >> }

\* a file of the disk: found by the walk, or there but not found (its
\* directory is unreadable, or the pattern has changed)
Files(path, kind) ==
    { << >> } \cup { << [path |-> path, kind |-> kind, domains |-> ds, found |-> f,
                         loads |-> "ok"] >> :
                      ds \in DiskDomainLists, f \in BOOLEAN }

\* the entries of one kind of the configuration the scenario starts with
Stored(path, target) ==
    { << >> } \cup { << [absolutePath |-> path, domains |-> ds, target |-> target] >> :
                      ds \in StoredDomainLists }

\* the application module of the scenario, on disk and in the configuration
ModuleFiles ==
    { << >>, << [path |-> expressPath, kind |-> typeExpress, domains |-> << dA >>,
                 found |-> TRUE, loads |-> "ok"] >> }
ModuleStored ==
    { << >>, << [absolutePath |-> expressPath, domains |-> << dA >>, target |-> NoTarget] >> }

\* the lines the operator types at a prompt: Enter, yes, no
AnswerLines == { << >>, << "Y" >>, << "n" >> }

(* loadCertificateEntries and parseCertificateDomains *)

\* new X509Certificate(certBuffer) throws
Unparsable == << "ERR_OSSL_PEM" >>
\* certificate.subjectAltName is undefined
NoSAN == << "undefined" >>
dnsPrefix == << "D", "N", "S", ":" >>

\* faulty variant: every entry of the subject alternative names is a domain
altNamesUnfiltered(subjectAltName) ==
    LET entries == split(subjectAltName, ",")
        trimmed == [i \in 1..Len(entries) |-> trim(entries[i])]
    IN  [i \in 1..Len(trimmed) |-> toLowerCase(dropFirst(trimmed[i], 4))]

\* subjectAltName.split(',').map(trim).filter(startsWith('DNS:'))
\*     .map(entry => entry.slice(4).toLowerCase())
altNames(subjectAltName) ==
    LET entries == split(subjectAltName, ",")
        trimmed == [i \in 1..Len(entries) |-> trim(entries[i])]
        dns     == SelectSeq(trimmed, LAMBDA entry : startsWith(entry, dnsPrefix))
    IN  [i \in 1..Len(dns) |-> toLowerCase(dropFirst(dns[i], 4))]

\* parseCertificateDomains(certBuffer, fallbackDomain); cert is the contents
\* of cert.pem: NoFile, Unparsable, NoSAN or the subjectAltName string
parseCertificateDomains(cert, fallbackDomain) ==
    LET fallback == IF fallbackDomain # << >> THEN << toLowerCase(fallbackDomain) >>
                    ELSE << >>
    IN  IF cert = NoFile THEN (IF fallbackDomain # << >> THEN << fallbackDomain >> ELSE << >>)
        ELSE IF cert = Unparsable THEN fallback
        ELSE LET names == IF cert = NoSAN \/ cert = << >> THEN << >> ELSE altNames(cert)
             IN  IF names # << >> THEN names ELSE fallback

\* faulty variant: chain.pem is required as well
loadCertificateEntryNeedsChain(dir) ==
    IF ~dir.key \/ dir.cert = NoFile \/ ~dir.chain THEN [threw |-> TRUE]
    ELSE [threw |-> FALSE, key |-> dir.key, cert |-> dir.cert, ca |-> dir.chain,
          domains |-> parseCertificateDomains(dir.cert, dir.name), source |-> dir.name]

\* the body of directories.map for one directory
loadCertificateEntry(dir) ==
    IF ~dir.key \/ dir.cert = NoFile THEN [threw |-> TRUE]
    ELSE [threw |-> FALSE, key |-> dir.key, cert |-> dir.cert, ca |-> dir.chain,
          domains |-> parseCertificateDomains(dir.cert, dir.name), source |-> dir.name]

\* loadCertificateEntries() on certificate root `root`
loadCertificateEntries(root) ==
    IF ~root.exists THEN [threw |-> TRUE, entries |-> << >>]
    ELSE IF root.dirs = << >> THEN [threw |-> TRUE, entries |-> << >>]
    ELSE LET loaded == [i \in 1..Len(root.dirs) |-> loadCertificateEntry(root.dirs[i])] IN
         IF \E i \in 1..Len(root.dirs) : loaded[i].threw
         THEN [threw |-> TRUE, entries |-> << >>]
         ELSE [threw |-> FALSE, entries |-> loaded]

\* a certificate root with one complete directory
GoodRoot ==
    [exists |-> TRUE,
     dirs |-> << [name |-> << "a" >>, key |-> TRUE, cert |-> NoSAN, chain |-> FALSE] >>]

-----------------------------------------------------------------------------
(* The scenario of the rescans, continued *)

\* the certificates of the scenario
certOfA == << [domains |-> << dA >>] >>

InitRescan ==
    /\ proxyAppDescriptors = << >>
    /\ staticAppDescriptors = << >>
    /\ serverDescriptors = << >>
    /\ certificateEntries = certOfA
    /\ domainToApp = EmptyMap
    /\ certDomainSet = {}
    /\ phase = "offline"
    /\ q = NoRequest
    /\ q2 = NoRequest
    /\ call = [fn |-> "start", starts |-> << >>]
    /\ \E pf \in Files(proxyPath, typeProxy), sf \in Files(staticPath, typeStatic),
          ef \in ModuleFiles :
          disk = pf \o sf \o ef
    /\ certRoot = GoodRoot
    /\ \/ cfgFile = NoFile
       \/ \E ps \in Stored(proxyPath, proxyTarget(proxyPath)),
             ss \in Stored(staticPath, NoTarget), es \in ModuleStored :
             cfgFile = writeConfigFile(es, ss, ps, certificateEntries)

\* faulty variant: the configuration is written before the certificates are
\* loaded, without annotations when loading fails
UpdateConfigWriteFirst(cfg, answers) ==
    /\ phase = "offline"
    /\ Len(call.starts) < MaxStarts
    /\ \E ok \in { reconcileConfigInteractive(cfg, disk, answers) } :
       \E loaded \in { IF ok.threw THEN [threw |-> FALSE, entries |-> << >>]
                       ELSE loadCertificateEntries(certRoot) } :
       /\ Len(ok.prompts) = Len(answers)
       /\ cfgFile' = IF ok.threw THEN cfgFile
                     ELSE writeConfigFile(resultsOf(ok, typeExpress),
                                          resultsOf(ok, typeStatic),
                                          resultsOf(ok, typeProxy), loaded.entries)
       /\ call' = [call EXCEPT !.starts = Append(@,
                      [update |-> TRUE, before |-> cfgFile, walked |-> TRUE,
                       prompts |-> ok.prompts, passes |-> ok.passes,
                       threw |-> ok.threw, loadFailed |-> loaded.threw,
                       wrote |-> ~ok.threw, after |-> cfgFile'])]
    /\ UNCHANGED << serverVars, disk, certRoot >>

\* node https-expresses.js --update: updateConfig(); a rejection of
\* reconcileConfigInteractive ends the process before loadCertificateEntries,
\* an exception of loadCertificateEntries ends it before writeConfigFile
UpdateConfig(cfg, answers) ==
    /\ phase = "offline"
    /\ Len(call.starts) < MaxStarts
    /\ \E ok \in { reconcileConfigInteractive(cfg, disk, answers) } :
       \E loaded \in { IF ok.threw THEN [threw |-> FALSE, entries |-> << >>]
                       ELSE loadCertificateEntries(certRoot) } :
       /\ Len(ok.prompts) = Len(answers)
       /\ cfgFile' = IF ok.threw \/ loaded.threw THEN cfgFile
                     ELSE writeConfigFile(resultsOf(ok, typeExpress),
                                          resultsOf(ok, typeStatic),
                                          resultsOf(ok, typeProxy), loaded.entries)
       /\ call' = [call EXCEPT !.starts = Append(@,
                      [update |-> TRUE, before |-> cfgFile, walked |-> TRUE,
                       prompts |-> ok.prompts, passes |-> ok.passes,
                       threw |-> ok.threw, loadFailed |-> loaded.threw,
                       wrote |-> ~ok.threw /\ ~loaded.threw, after |-> cfgFile'])]
    /\ UNCHANGED << serverVars, disk, certRoot >>

\* the domain lists of parsed configuration entries
domainsOf(list) == [i \in 1..Len(list) |-> list[i].domains]

\* node https-expresses.js: main() maps the parsed configuration to
\* descriptors, builds the routing table and listens
Main ==
    /\ phase = "offline"
    /\ Len(call.starts) < MaxStarts
    /\ \E parsed \in { parseConfigFile(cfgFile) } :
       /\ ~parsed.threw
       /\ proxyAppDescriptors' = Descriptors("proxy", domainsOf(parsed.proxies))
       /\ staticAppDescriptors' = Descriptors("static", domainsOf(parsed.statics))
       /\ serverDescriptors' = Descriptors("express", domainsOf(parsed.servers))
    /\ domainToApp' = buildDomainAppMap(serverDescriptors', staticAppDescriptors',
                                        proxyAppDescriptors')
    /\ certDomainSet' = buildCertDomainSet(certificateEntries)
    /\ phase' = "listening"
    /\ call' = [call EXCEPT !.starts = Append(@,
                   [update |-> FALSE, before |-> cfgFile, walked |-> FALSE,
                    prompts |-> << >>, passes |-> << >>,
                    threw |-> FALSE, loadFailed |-> FALSE, wrote |-> FALSE,
                    after |-> cfgFile])]
    /\ UNCHANGED << certificateEntries, q, q2, fileVars >>

\* the process is started with --update; the operator answers the prompts
Update ==
    \E cfg \in { parseConfigFile(cfgFile) } :
    \E answers \in StringsUpTo(AnswerLines, Cardinality(RescanPaths)) :
        UpdateConfig(cfg, answers)

NextRescan ==
    \/ Update
    \/ Main

SpecRescan == InitRescan /\ [][NextRescan]_vars

-----------------------------------------------------------------------------
(* Vocabulary of the properties of rescans *)

\* the elements of a list
Range(list) == { list[i] : i \in 1..Len(list) }

\* the starts with --update
UpdateStarts == { k \in 1..Len(call.starts) : call.starts[k].update }

\* the passes of reconcileDescriptors in start k: one per kind reached
PassesOf(k) == Range(call.starts[k].passes)

\* the prompts of start k about path abs
PromptsAbout(k, abs) ==
    { x \in 1..Len(call.starts[k].prompts) : call.starts[k].prompts[x].abs = abs }

\* the entries of pass.finalList for path abs
FinalEntries(pass, abs) ==
    { x \in 1..Len(pass.finalList) : pass.finalList[x].absolutePath = abs }

\* the entry of path abs in the persisted map of a pass
StoredEntry(pass, abs) == CHOOSE e \in Range(pass.existing) : e.absolutePath = abs

\* path abs is in the persisted map of a pass
IsStored(pass, abs) == \E e \in Range(pass.existing) : e.absolutePath = abs

\* path abs is among the discovered artifacts of a pass
IsDiscovered(pass, abs) == \E d \in Range(pass.discovered) : d.absolutePath = abs

-----------------------------------------------------------------------------
(* C12 *)

\* C12: in a rescan, for each discovered artifact whose path is in the
\* persisted map: there is a prompt about it if and only if the discovered and
\* the stored domain lists differ as sets, and then one prompt, an update
\* prompt with default yes; after the answer no the final list has the stored
\* domain list, after yes or the default, and without a prompt, the discovered
\* one; in each case the artifact is in the final list exactly once.
C12_UpdatePrompt ==
    call.fn = "start" =>
        \A k \in UpdateStarts : \A pass \in PassesOf(k) : \A d \in Range(pass.discovered) :
            IsStored(pass, d.absolutePath) =>
                LET abs    == d.absolutePath
                    stored == StoredEntry(pass, abs).domains
                    asked  == PromptsAbout(k, abs)
                IN  /\ (asked # {}) <=> (Range(d.domains) # Range(stored))
                    /\ Cardinality(asked) <= 1
                    /\ \A x \in asked :
                          /\ call.starts[k].prompts[x].what = "update"
                          /\ call.starts[k].prompts[x].defaultYes
                    /\ Cardinality(FinalEntries(pass, abs)) = 1
                    /\ \A x \in FinalEntries(pass, abs) :
                          pass.finalList[x].domains =
                              IF \E y \in asked : ~call.starts[k].prompts[y].answer
                              THEN stored ELSE d.domains

\* an artifact whose domains changed on disk, the update declined: the final
\* list keeps the stored domains
C12_Witness ==
    /\ call.fn = "start"
    /\ \E k \in UpdateStarts : \E pass \in PassesOf(k) : \E d \in Range(pass.discovered) :
          /\ IsStored(pass, d.absolutePath)
          /\ d.domains = << dB, dA >>
          /\ StoredEntry(pass, d.absolutePath).domains = << dA >>
          /\ \E x \in PromptsAbout(k, d.absolutePath) : ~call.starts[k].prompts[x].answer
          /\ \E x \in FinalEntries(pass, d.absolutePath) :
                pass.finalList[x].domains = << dA >>

-----------------------------------------------------------------------------
(* C13 *)

\* the lines of the configuration file
ConfigLines(file) == IF file = NoFile THEN {} ELSE Range(splitLines(file))

\* start k is a rescan that declined to add the discovered artifact abs
DeclinedAdd(k, abs) ==
    /\ k \in UpdateStarts
    /\ \E pass \in PassesOf(k) : IsDiscovered(pass, abs) /\ ~IsStored(pass, abs)
    /\ \E x \in PromptsAbout(k, abs) : ~call.starts[k].prompts[x].answer

\* C13: a discovered artifact absent from the persisted map is in the final
\* list only after an add prompt answered yes; when the operator declines, it
\* is neither in the final list nor in the configuration file the rescan
\* leaves, and the next rescan asks the add prompt for it again.
C13_AddPrompt ==
    call.fn = "start" =>
        /\ \A k \in UpdateStarts : \A pass \in PassesOf(k) : \A d \in Range(pass.discovered) :
              ~IsStored(pass, d.absolutePath) =>
                  LET abs   == d.absolutePath
                      asked == PromptsAbout(k, abs)
                  IN  /\ Cardinality(asked) = 1
                      /\ \A x \in asked : call.starts[k].prompts[x].what = "add"
                      /\ (FinalEntries(pass, abs) # {})
                            <=> \A x \in asked : call.starts[k].prompts[x].answer
        /\ \A k \in UpdateStarts : \A abs \in RescanPaths :
              DeclinedAdd(k, abs) =>
                  /\ abs \notin ConfigLines(call.starts[k].after)
                  /\ (k + 1) \in UpdateStarts =>
                        \E x \in PromptsAbout(k + 1, abs) :
                            call.starts[k + 1].prompts[x].what = "add"

-----------------------------------------------------------------------------
(* C14 *)

\* C14: for each persisted entry whose path is not among the discovered
\* artifacts of its kind there is exactly one keep prompt, with default no;
\* after no the entry is not in the final list; after yes the reconciliation
\* completes and the final list has the entry, under the same path and kind,
\* with the domains of the file if it still exists and the stored domains
\* otherwise.
C14_KeepPrompt ==
    call.fn = "start" =>
        \A k \in UpdateStarts : \A pass \in PassesOf(k) : \A e \in Range(pass.existing) :
            ~IsDiscovered(pass, e.absolutePath) =>
                LET abs   == e.absolutePath
                    asked == PromptsAbout(k, abs)
                IN  /\ Cardinality(asked) = 1
                    /\ \A x \in asked :
                          /\ call.starts[k].prompts[x].what = "keep"
                          /\ ~call.starts[k].prompts[x].defaultYes
                          /\ ~call.starts[k].prompts[x].answer => FinalEntries(pass, abs) = {}
                          /\ call.starts[k].prompts[x].answer =>
                                /\ ~call.starts[k].threw
                                /\ Cardinality(FinalEntries(pass, abs)) = 1
                                /\ \A y \in FinalEntries(pass, abs) :
                                      /\ pass.finalList[y].type = pass.type
                                      /\ pass.finalList[y].domains =
                                            IF existsSync(disk, abs)
                                            THEN parseDomainsFromDisk(disk, abs)
                                            ELSE e.domains

-----------------------------------------------------------------------------
(* C15 *)

\* C15: a start reconciles (walks the file system, prompts, rewrites the
\* configuration) if and only if it has --update or finds no configuration
\* file; a start without --update that finds a configuration file walks
\* nothing, asks nothing and leaves the file as it is.
C15_WhenReconciled ==
    call.fn = "start" =>
        \A k \in 1..Len(call.starts) :
            LET s == call.starts[k] IN
            /\ s.walked <=> (s.update \/ s.before = NoFile)
            /\ (~s.update /\ s.before # NoFile) =>
                  (~s.walked /\ s.prompts = << >> /\ s.after = s.before)

-----------------------------------------------------------------------------
(* SpecCerts: loadCertificateEntries and parseCertificateDomains read the    *)
(* certificate root, main() registers the SNI contexts and listens          *)

\* certificate directories under CERT_ROOT
MaxCertDirs == 2

\* cert.pem of a directory
CertFiles == { NoFile, Unparsable, NoSAN, << "D", "N", "S", ":", "a" >>, << "I", "P", ":", "1" >>, << "D", "N", "S", ":", "B", ",", " ", "I", "P", ":", "1", ",", " ", "D", "N", "S", ":", "a" >> }
\* directory names
CertDirNames == { << "a" >>, << "B" >>, << "c" >> }
CertDirs == [name : CertDirNames, key : BOOLEAN, cert : CertFiles, chain : BOOLEAN]

InitCerts ==
    /\ proxyAppDescriptors = << >>
    /\ staticAppDescriptors = << >>
    /\ serverDescriptors = << >>
    /\ certificateEntries = << >>
    /\ domainToApp = EmptyMap
    /\ certDomainSet = {}
    /\ phase = "offline"
    /\ q = NoRequest
    /\ q2 = NoRequest
    /\ call = NoCall
    /\ cfgFile = NoFile
    /\ disk = << >>
    /\ \/ certRoot = NoRoot
       \/ \E n \in 0..MaxCertDirs : \E dirs \in [1..n -> CertDirs] :
             /\ \A i, j \in 1..n : dirs[i].name = dirs[j].name => i = j
             /\ certRoot = [exists |-> TRUE, dirs |-> dirs]

\* main() from loadCertificateEntries() on: a throw rejects main() and the
\* process ends with exit code 1; otherwise the server is created with the
\* first entry, the contexts are attached and the server listens
StartServer ==
    /\ phase = "offline"
    /\ \E loaded \in { loadCertificateEntries(certRoot) } :
       IF loaded.threw
       THEN /\ phase' = "failed"
            /\ call' = [fn |-> "main", contexts |-> << >>]
            /\ UNCHANGED << certificateEntries, domainToApp, certDomainSet >>
       ELSE /\ certificateEntries' = loaded.entries
            /\ domainToApp' = buildDomainAppMap(serverDescriptors, staticAppDescriptors,
                                                proxyAppDescriptors)
            /\ certDomainSet' = buildCertDomainSet(loaded.entries)
            /\ call' = [fn |-> "main",
                        contexts |-> attachCertificateContexts(loaded.entries)]
            /\ phase' = "listening"
    /\ UNCHANGED << proxyAppDescriptors, staticAppDescriptors, serverDescriptors,
                    q, q2, fileVars >>

NextCerts == StartServer

SpecCerts == InitCerts /\ [][NextCerts]_vars

-----------------------------------------------------------------------------
(* C21, C22 *)

\* subject alternative names `san` list the DNS name `name`
ListsDNS(san, name) ==
    /\ san \notin { NoFile, Unparsable, NoSAN }
    /\ \E i \in 1..Len(san) :
       LET j == i + 3 + Len(name) IN
       /\ j <= Len(san)
       /\ SubSeq(san, i, j) = dnsPrefix \o name
       /\ i = 1 \/ san[i - 1] \in { ",", " " }
       /\ j = Len(san) \/ san[j + 1] = ","

\* the names a certificate may list
DNSNames == { << "a" >>, << "B" >>, << "b" >>, << "1" >> }

\* the subject alternative names cannot be read, or list no DNS name
NoDNSNames(san) == san \in { Unparsable, NoSAN } \/ \A name \in DNSNames : ~ListsDNS(san, name)

\* an SNI lookup of server name `name` finds the context made of directory d
ResolvesTo(name, d) ==
    \E x \in 1..Len(call.contexts) :
        /\ call.contexts[x].name = toLowerCase(name)
        /\ call.contexts[x].entry = d
        /\ \A y \in 1..Len(call.contexts) :
              call.contexts[y].name = toLowerCase(name) => y = x

\* the names directory d of the certificate root stands for
NamesOfDir(d) ==
    IF NoDNSNames(certRoot.dirs[d].cert) THEN { certRoot.dirs[d].name }
    ELSE { name \in DNSNames : ListsDNS(certRoot.dirs[d].cert, name) }

ClaimedEarlier(name, d) ==
    \E e \in 1..(d - 1) : \E earlier \in NamesOfDir(e) :
        toLowerCase(earlier) = toLowerCase(name)

LacksKeyOrCert(d) == ~certRoot.dirs[d].key \/ certRoot.dirs[d].cert = NoFile

\* C22: with no certificate root, no subdirectory in it, or a subdirectory
\* lacking privkey.pem or cert.pem, startup fails and never listens; in every
\* other case, whatever chain.pem files are absent, the server listens.
C22_StartupFailure ==
    phase # "offline" =>
        IF ~certRoot.exists \/ certRoot.dirs = << >>
           \/ \E d \in 1..Len(certRoot.dirs) : LacksKeyOrCert(d)
        THEN phase = "failed" /\ call.contexts = << >>
        ELSE phase = "listening"

\* a start that fails on the second directory's missing key
C22_Witness ==
    /\ phase = "failed"
    /\ Len(certRoot.dirs) = 2
    /\ ~LacksKeyOrCert(1) /\ ~certRoot.dirs[2].key /\ certRoot.dirs[2].cert # NoFile

\* a start that listens although no directory has a chain.pem
C22_WitnessNoChain ==
    /\ phase = "listening"
    /\ \A d \in 1..Len(certRoot.dirs) : ~certRoot.dirs[d].chain

-----------------------------------------------------------------------------
(* SpecScan: a rescan (--update) of a disk whose application module may not *)
(* load                                                                      *)

\* what loadServerDescriptor makes of the module: it loads, its init()
\* rejects, it provides no handler function, it declares no domain
ModuleOutcomes == { "ok", "init failed", "no handler", "no domain" }

\* the application module of the scenario on disk
ScannedModules ==
    { << [path |-> expressPath, kind |-> typeExpress,
          domains |-> IF o = "no domain" THEN << >> ELSE << dA >>,
          found |-> TRUE, loads |-> o] >> : o \in ModuleOutcomes }

InitScan ==
    /\ proxyAppDescriptors = << >>
    /\ staticAppDescriptors = << >>
    /\ serverDescriptors = << >>
    /\ certificateEntries = certOfA
    /\ domainToApp = EmptyMap
    /\ certDomainSet = {}
    /\ phase = "offline"
    /\ q = NoRequest
    /\ q2 = NoRequest
    /\ call = [fn |-> "start", starts |-> << >>]
    /\ \E pf \in Files(proxyPath, typeProxy), sf \in Files(staticPath, typeStatic),
          ef \in ScannedModules :
          disk = pf \o sf \o ef
    /\ certRoot = GoodRoot
    /\ \/ cfgFile = NoFile
       \/ \E ps \in Stored(proxyPath, proxyTarget(proxyPath)) :
             cfgFile = writeConfigFile(<< >>, << >>, ps, certificateEntries)

NextScan == Update

SpecScan == InitScan /\ [][NextScan]_vars

-----------------------------------------------------------------------------
(* C23 *)

\* the application modules on disk that the walk finds and that do not load
FaultyModules == { i \in 1..Len(disk) : disk[i].found /\ loadServerDescriptorThrows(disk[i]) }

\* C23: a rescan of a disk with an application module that does not load
\* (initializer failure, no handler, no domain) completes: the configuration
\* is written, without that module and with the other definitions reconciled.
C23_FaultyModuleSkipped ==
    \A k \in 1..Len(call.starts) :
        LET s == call.starts[k] IN
        (s.update /\ FaultyModules # {}) =>
            /\ ~s.threw /\ s.wrote
            /\ \A i \in FaultyModules :
                  \A e \in Range(parseConfigFile(s.after).servers) :
                      e.absolutePath # disk[i].path

-----------------------------------------------------------------------------
(* SpecStartup: main() builds the handlers of the static and proxy          *)
(* descriptors (createAppDescriptors), the routing table, and listens       *)

\* createAppOfKind(parameter, kind) for descriptor number i of its list:
\* createStaticApp throws when the root is not a directory, and
\* createProxyMiddleware may reject its target
createAppOfKind(descriptor, kind, i) ==
    [threw |-> ~descriptor.builds, app |-> << kind, i >>]

\* faulty variant: no try/catch around buildApp, the first throw ends the batch
createAppDescriptorsUncaught(descriptors, kind) ==
    LET built == [i \in 1..Len(descriptors) |-> createAppOfKind(descriptors[i], kind, i)] IN
    [threw |-> \E i \in 1..Len(descriptors) : built[i].threw, results |-> << >>]

\* createAppDescriptors(descriptors, buildApp, kind): forEach with try/catch
createAppDescriptors(descriptors, kind) ==
    LET built == [i \in 1..Len(descriptors) |-> createAppOfKind(descriptors[i], kind, i)]
        RECURSIVE results(_)
        results(i) ==
            IF i > Len(descriptors) THEN << >>
            ELSE (IF built[i].threw THEN << >>
                  ELSE << [filename |-> << kind, i >>, domains |-> descriptors[i].domains,
                           app |-> built[i].app, kind |-> kind] >>)
                 \o results(i + 1)
    IN  [threw |-> FALSE, results |-> results(1)]

\* the static and proxy descriptors main() maps from the configuration
BuildDomainLists == { << dA >>, << dB, dPaddedA >> }
BuildDescriptors == [domains : BuildDomainLists, builds : BOOLEAN]

InitStartup ==
    /\ proxyAppDescriptors = << >>
    /\ staticAppDescriptors = << >>
    /\ serverDescriptors = << >>
    /\ certificateEntries = << >>
    /\ domainToApp = EmptyMap
    /\ certDomainSet = {}
    /\ phase = "offline"
    /\ q = NoRequest
    /\ q2 = NoRequest
    /\ \E np \in 0..MaxDescriptors : \E ns \in 0..(MaxDescriptors - np) :
       \E p \in [1..np -> BuildDescriptors], s \in [1..ns -> BuildDescriptors] :
          call = [fn |-> "main", proxyDescriptors |-> p, staticDescriptors |-> s]
    /\ cfgFile = NoFile
    /\ disk = << >>
    /\ certRoot \in { NoRoot, GoodRoot }

\* main() from loadCertificateEntries() to listen()
BuildAndListen ==
    /\ phase = "offline"
    /\ \E loaded \in { loadCertificateEntries(certRoot) } :
       \E proxyApps \in { createAppDescriptors(call.proxyDescriptors, "proxy") } :
       \E staticApps \in { createAppDescriptors(call.staticDescriptors, "static") } :
       IF loaded.threw \/ proxyApps.threw \/ staticApps.threw
       THEN /\ phase' = "failed"
            /\ UNCHANGED << inputVars, domainToApp, certDomainSet >>
       ELSE /\ certificateEntries' = loaded.entries
            /\ proxyAppDescriptors' = proxyApps.results
            /\ staticAppDescriptors' = staticApps.results
            /\ domainToApp' = buildDomainAppMap(serverDescriptors, staticApps.results,
                                                proxyApps.results)
            /\ certDomainSet' = buildCertDomainSet(loaded.entries)
            /\ phase' = "listening"
            /\ UNCHANGED serverDescriptors
    /\ UNCHANGED << q, q2, call, fileVars >>

NextStartup == BuildAndListen

SpecStartup == InitStartup /\ [][NextStartup]_vars

-----------------------------------------------------------------------------
(* C24 *)

\* the hostnames under which the routing table lists handler `app`
RoutedUnder(app) ==
    { k \in DOMAIN domainToApp : \E x \in 1..Len(domainToApp[k]) : domainToApp[k][x].app = app }

\* the hostnames a descriptor declares
DeclaredBy(descriptor) ==
    { normalize(descriptor.domains[j]) : j \in 1..Len(descriptor.domains) } \ { << >> }

\* C24: with the certificates in order, startup reaches listening whatever
\* handler constructions throw; a descriptor whose construction threw has no
\* routing entry, and every other descriptor is routed under each hostname
\* it declares.
C24_FailedHandlerDropped ==
    (phase # "offline" /\ certRoot = GoodRoot /\ call.fn = "main") =>
        /\ phase = "listening"
        /\ \A i \in 1..Len(call.proxyDescriptors) :
              RoutedUnder(<< "proxy", i >>) =
                  IF call.proxyDescriptors[i].builds
                  THEN DeclaredBy(call.proxyDescriptors[i]) ELSE {}
        /\ \A i \in 1..Len(call.staticDescriptors) :
              RoutedUnder(<< "static", i >>) =
                  IF call.staticDescriptors[i].builds
                  THEN DeclaredBy(call.staticDescriptors[i]) ELSE {}

\* a proxy whose construction threw, ahead of a proxy and a static that are
\* both routed under the hostname all three declare
C24_Witness ==
    /\ phase = "listening"
    /\ Len(call.proxyDescriptors) = 2 /\ Len(call.staticDescriptors) = 1
    /\ ~call.proxyDescriptors[1].builds
    /\ call.proxyDescriptors[2].builds /\ call.staticDescriptors[1].builds
    /\ dA \in RoutedUnder(<< "proxy", 2 >>) \cap RoutedUnder(<< "static", 1 >>)
    /\ dA \in DeclaredBy(call.proxyDescriptors[1])

-----------------------------------------------------------------------------
(* SpecStatic: the handler createStaticApp builds, chained by the dispatcher *)

\* static roots chained behind one another
MaxRoots == 2

\* candidates of the index middleware, in the order tried
indexCandidates == << << "i", "n", "d", "e", "x", ".", "h", "t", "m", "l" >>, << "i", "n", "d", "e", "x", ".", "h", "t", "m" >>, << "d", "e", "f", "a", "u", "l", "t", ".", "h", "t", "m", "l" >>, << "d", "e", "f", "a", "u", "l", "t", ".", "h", "t", "m" >> >>

\* the index middleware: cleaned = req.path.replace(/\/+$/, '') || '/', and
\* the first candidate that is a file under the root is sent
indexFileFor(files, reqPath) ==
    LET stripped == stripSlashes(reqPath)
        cleaned  == IF stripped = << >> THEN << "/" >> ELSE stripped
        target(file) == IF cleaned = << "/" >> THEN << "/" >> \o file ELSE cleaned \o << "/" >> \o file
    IN  \E c \in 1..Len(indexCandidates) : target(indexCandidates[c]) \in files

\* serveStatic(rootDir, {fallthrough: true, extensions: ['html', 'htm']}):
\* the file of the path, or of the path with one of the extensions
literalFileFor(files, reqPath) ==
    \/ reqPath \in files
    \/ /\ reqPath[Len(reqPath)] # "/"
       /\ (reqPath \o << ".", "h", "t", "m", "l" >> \in files \/ reqPath \o << ".", "h", "t", "m" >> \in files)

\* faulty variant: the last middleware answers 404 itself
staticFallThrough404(r, i) ==
    [r EXCEPT !.headersSent = TRUE,
              !.sent = Append(@, [by |-> r.mappings[i].app, statusCode |-> 404,
                                  body |-> "handler", headers |-> r.headers])]

\* the last middleware of the static handler, (req, res, next) => { next(); },
\* after which the handler's router hands over to the dispatcher's continuation
staticFallThrough(r, i) == handlerCallsNext(r, i, FALSE)

\* the static handler of position i on a request for reqPath
staticApp(r, i, files, reqPath) ==
    IF indexFileFor(files, reqPath) \/ literalFileFor(files, reqPath)
    THEN handlerResponds(r, i)
    ELSE staticFallThrough(r, i)

\* the files under a static root, and the paths requested
RootFiles == { << "/", "i", "n", "d", "e", "x", ".", "h", "t", "m", "l" >>, << "/", "f", ".", "h", "t", "m" >>, << "/", "d", "/", "d", "e", "f", "a", "u", "l", "t", ".", "h", "t", "m" >> }
RequestPaths == { << "/" >>, << "/", "f" >>, << "/", "f", ".", "h", "t", "m" >>, << "/", "d", "/" >>, << "/", "x" >> }

InitStatic ==
    /\ proxyAppDescriptors = << >>
    /\ \E n \in 0..MaxRoots : \E roots \in [1..n -> SUBSET RootFiles] :
       /\ staticAppDescriptors = Descriptors("static", [i \in 1..n |-> << dA >>])
       /\ disk = [i \in 1..n |-> [root |-> << "static", i >>, files |-> roots[i]]]
    /\ serverDescriptors \in { << >>, Descriptors("express", << << dA >> >>) }
    /\ certificateEntries = certOfA
    /\ domainToApp = buildDomainAppMap(serverDescriptors, staticAppDescriptors,
                                       proxyAppDescriptors)
    /\ certDomainSet = buildCertDomainSet(certificateEntries)
    /\ phase = "listening"
    /\ q = NoRequest
    /\ q2 = NoRequest
    /\ call = NoCall
    /\ cfgFile = NoFile
    /\ certRoot = NoRoot

\* the transport calls httpsRequestHandler(req, res) with req.path = reqPath
RequestPath(host, reqPath) ==
    /\ phase = "listening"
    /\ ~q.open
    /\ q' = httpsRequestHandler(domainToApp, certDomainSet, host)
    /\ call' = [fn |-> "request", path |-> reqPath]
    /\ UNCHANGED << inputVars, domainToApp, certDomainSet, phase, fileVars, q2 >>

\* the handler of position i has had its say on the request
Acted(r, i) ==
    \/ r.h[i].nexts > 0
    \/ \E k \in 1..Len(r.sent) : r.sent[k].by = r.mappings[i].app

\* the static handler of position i runs
StaticApp(i) ==
    /\ Acting(q, i) /\ q.h[i].st = "running"
    /\ q.mappings[i].kind = "static"
    /\ ~Acted(q, i)
    /\ q' = staticApp(q, i, disk[q.mappings[i].app[2]].files, call.path)
    /\ Frame

\* the application module of position i answers
ModuleResponds(i) ==
    /\ Acting(q, i) /\ q.h[i].st = "running"
    /\ q.mappings[i].kind = "express"
    /\ ~q.headersSent
    /\ q' = handlerResponds(q, i)
    /\ Frame

\* app(req, res, next) of position i returns
AppReturns(i) ==
    /\ Acting(q, i) /\ q.h[i].st = "running"
    /\ Acted(q, i)
    /\ q' = handlerReturns(q, i)
    /\ Frame

NextStatic ==
    \/ \E host \in { dA, dB }, reqPath \in RequestPaths : RequestPath(host, reqPath)
    \/ \E i \in 1..Len(q.mappings) : StaticApp(i)
    \/ \E i \in 1..Len(q.mappings) : ModuleResponds(i)
    \/ \E i \in 1..Len(q.mappings) : AppReturns(i)

SpecStatic == InitStatic /\ [][NextStatic]_vars

-----------------------------------------------------------------------------
(* C25 *)

\* the files under the root of the static handler of position i
FilesOf(i) == disk[q.mappings[i].app[2]].files

\* the root of position i has a file for the request: the file itself, the
\* file with an html extension, or an index file of the directory
HasFileFor(i) ==
    \E file \in FilesOf(i) :
        \/ file = call.path
        \/ \E ext \in { << ".", "h", "t", "m", "l" >>, << ".", "h", "t", "m" >> } :
              file = call.path \o ext /\ call.path[Len(call.path)] # "/"
        \/ \E c \in 1..Len(indexCandidates) :
           \E slashes \in { << >>, << "/" >> } :
              file = stripSlashes(call.path) \o << "/" >> \o indexCandidates[c]
              /\ call.path = stripSlashes(call.path) \o slashes

\* C25: no static handler writes a not-found status; a static handler with no
\* file for the request writes nothing and calls its continuation, after
\* which the next handler of the hostname has been invoked, and 404 is
\* written by the dispatcher alone, once every handler of the chain deferred.
C25_StaticFallsThrough ==
    q.open =>
        /\ \A k \in 1..Len(q.sent) :
              q.sent[k].statusCode = 404 =>
                  /\ q.sent[k].by = Dispatcher
                  /\ \A i \in 1..Len(q.mappings) : q.h[i].nexts > 0
        /\ \A i \in 1..Len(q.mappings) :
              (q.mappings[i].kind = "static" /\ ~HasFileFor(i) /\ Acted(q, i)) =>
                  /\ \A k \in 1..Len(q.sent) : q.sent[k].by # q.mappings[i].app
                  /\ IF i < Len(q.mappings) THEN q.h[i + 1].st # "idle"
                     ELSE \E k \in 1..Len(q.sent) :
                             q.sent[k].by = Dispatcher /\ q.sent[k].statusCode = 404

\* a first static root without a file for the request deferred to a second
\* one that answered
C25_Witness ==
    /\ q.open /\ Len(q.mappings) >= 2
    /\ q.mappings[1].kind = "static" /\ q.mappings[2].kind = "static"
    /\ ~HasFileFor(1) /\ q.h[1].nexts = 1
    /\ \E k \in 1..Len(q.sent) : q.sent[k].by = q.mappings[2].app

-----------------------------------------------------------------------------
(* SpecProxy: from a proxy definition file to the upstream of its handler:   *)
(* loadDescriptorsOfKind, reconcileDescriptors, the configuration file,      *)
(* main() and createProxyApp                                                 *)

\* lines of a proxy definition file
MaxProxyLines == 2

\* createProxyApp(target): the target option of createProxyMiddleware
createProxyApp(target) == << "h", "t", "t", "p", ":", "/", "/", "l", "o", "c", "a", "l", "h", "o", "s", "t", ":" >> \o target

\* main(): target: item.target || Math.floor(Math.random()*5000)+5000
mainTarget(itemTarget, random) ==
    IF itemTarget = NoTarget \/ itemTarget = << >> THEN random ELSE itemTarget

\* the target of the proxy definition at path abs as the rescan stores it and
\* main() reads it back: the third part from the end of the path, split at
\* its dots (the contents of the file play no part)
storedProxyTarget(abs) ==
    LET target == proxyTarget(abs)
        obj == [absolutePath |-> abs, domains |-> << dA >>,
                target |-> IF target = << >> THEN NoTarget ELSE target]
        cfg == writeConfigFile(<< >>, << >>, << obj >>, << >>)
    IN  parseConfigFile(cfg).proxies[1].target

\* the lines of proxy definition files, their paths, and the ports
\* Math.random() may give
ProxyLines == { << >>, << "a" >>, << "a", " ", "9" >>, << "a", " ", "b", ":", "9" >>, << "a", " ", "h", "t", "t", "p", ":", "/", "/", "b" >>, << "#", " ", "c", " ", "7" >> }
ProxyPaths == { << "/", "a", ".", "8", ".", "p", "r", "o", "x", "y", ".", "h", "t", "s" >>, << "/", "a", ".", "p", "r", "o", "x", "y", ".", "h", "t", "s" >>, << "/", "d", ".", "e", "/", "a", ".", ".", "p", "r", "o", "x", "y", ".", "h", "t", "s" >> }
RandomPorts == { << "5", "0", "0", "0" >>, << "9", "9", "9", "9" >> }

InitProxy ==
    /\ NotServing
    /\ \E n \in 1..MaxProxyLines : \E lines \in [1..n -> ProxyLines] :
       \E abs \in ProxyPaths :
          call = [fn |-> "loadDescriptorsOfKind", path |-> abs,
                  contents |-> joinLines(lines)]

\* a rescan stores the proxy definition, and a start builds its handler
CreateProxyApp ==
    /\ call.fn = "loadDescriptorsOfKind"
    /\ \E random \in RandomPorts :
       \E target \in { mainTarget(storedProxyTarget(call.path), random) } :
          call' = [fn |-> "createProxyApp", path |-> call.path,
                   contents |-> call.contents, target |-> target,
                   upstream |-> createProxyApp(target)]
    /\ UNCHANGED << serverVars, fileVars >>

NextProxy == CreateProxyApp

SpecProxy == InitProxy /\ [][NextProxy]_vars

-----------------------------------------------------------------------------
(* C26 *)

Digits == { "0", "1", "2", "3", "4", "5", "6", "7", "8", "9" }
IsNumber(s) == s # << >> /\ \A i \in 1..Len(s) : s[i] \in Digits

\* the white-space separated tokens of a line
Tokens(line) == SelectSeq(split(line, " "), LAMBDA part : part # << >>)

\* a line that is neither empty nor a comment and has a second token
Usable(line) ==
    /\ trim(line) # << >>
    /\ ~startsWith(trim(line), << "#" >>) /\ ~startsWith(trim(line), << "/", "/" >>)
    /\ Len(Tokens(line)) >= 2

\* a token that carries a scheme, and one of the form host:port
IsSchemed(token) == \E k \in 2..Len(token) : SubSeq(token, k, k + 2) = << ":", "/", "/" >>
IsHostPort(token) ==
    \E k \in 2..(Len(token) - 1) :
        /\ token[k] = ":" /\ \A j \in 1..(k - 1) : token[j] # ":"
        /\ IsNumber(SubSeq(token, k + 1, Len(token)))

\* the upstream URL a target token stands for
UrlOfToken(token) ==
    IF IsSchemed(token) THEN token
    ELSE IF IsNumber(token) THEN << "h", "t", "t", "p", ":", "/", "/", "l", "o", "c", "a", "l", "h", "o", "s", "t", ":" >> \o token
    ELSE << "h", "t", "t", "p", ":", "/", "/" >> \o token

\* the port the file name carries: the numeric dot-segment ahead of the
\* descriptor suffix, or 80
PortOfName(abs) ==
    LET parts == split(dropLast(basename(abs), Len(<< ".", "p", "r", "o", "x", "y", ".", "h", "t", "s" >>)), ".") IN
    IF Len(parts) > 1 /\ IsNumber(parts[Len(parts)]) THEN parts[Len(parts)] ELSE << "8", "0" >>

\* the upstream URL the definition file at abs with these contents asks for
UpstreamOf(contents, abs) ==
    LET lines == split(contents, "\n")
        usable == { i \in 1..Len(lines) : Usable(lines[i]) }
    IN  IF usable = {} THEN << "h", "t", "t", "p", ":", "/", "/", "l", "o", "c", "a", "l", "h", "o", "s", "t", ":" >> \o PortOfName(abs)
        ELSE UrlOfToken(Tokens(lines[CHOOSE i \in usable : \A j \in usable : i <= j])[2])

\* C26: the upstream a proxy handler forwards to is the one its definition
\* file names (second token of the first usable line: a bare port on
\* localhost, host:port, or a schemed URL as it stands), and without one the
\* numeric dot-segment of the file name as a port on localhost, or port 80.
C26_ProxyUpstream ==
    call.fn = "createProxyApp" => call.upstream = UpstreamOf(call.contents, call.path)

-----------------------------------------------------------------------------
(* C27, C28 *)

\* a comment line, and a line with nothing on it
IsCommentLine(line) == startsWith(line, << "#" >>) \/ startsWith(line, << "/", "/" >>)
IsBlankLine(line) == trim(line) = << >>

\* the file read has no domain to give: it cannot be read, or each of its
\* lines is blank or a comment
YieldsNoDomain(contents) ==
    \/ contents = Unreadable
    \/ \A line \in Range(split(contents, "\n")) :
          IsBlankLine(line) \/ IsCommentLine(trim(line))

\* the file name without the descriptor suffix its discovery pattern matches
WithoutSuffix(filename) ==
    IF endsWith(filename, extStaticHts) THEN dropLast(filename, Len(extStaticHts))
    ELSE dropLast(filename, Len(extProxyHts))

\* C27: a parse of a definition file that has no domain to give (unreadable,
\* empty, comments only) returns exactly one domain, the file name without
\* the descriptor suffix of its discovery pattern.
C27_FallbackDomain ==
    call.fn = "parseStaticsAndProxiesDomains" =>
        \A k \in 1..Len(call.parses) :
            ( /\ YieldsNoDomain(call.parses[k].read)
              /\ (endsWith(call.filename, extStaticHts) \/ endsWith(call.filename, extProxyHts)) )
            => call.parses[k].domains = << WithoutSuffix(call.filename) >>

\* the contents of the file after parse number k
AfterParse(k) == IF k < Len(call.parses) THEN call.parses[k + 1].read ELSE call.file

\* C28: when a parse rewrites the definition file, every comment line of the
\* file read stands in the rewritten file at the same position with the
\* same content.
C28_CommentsPreserved ==
    call.fn = "parseStaticsAndProxiesDomains" =>
        \A k \in 1..Len(call.parses) :
            call.parses[k].rewrote =>
                LET before == splitLines(call.parses[k].read)
                    after  == splitLines(AfterParse(k))
                IN  \A i \in 1..Len(before) :
                        IsCommentLine(before[i]) =>
                            i <= Len(after) /\ after[i] = before[i]

-----------------------------------------------------------------------------
(* SpecTwo: two requests in flight on one server.  Each call of              *)
(* httpsRequestHandler has its own res, mappings and index (let index=0 in   *)
(* the body of the function); the routing table and the certificate domain   *)
(* set are the objects createRequestHandler closed over, shared by all calls *)

\* the requests in flight, by number
Requests == { 1, 2 }
InFlight == << q, q2 >>

\* faulty variant: one index for all calls (declared in createRequestHandler)
closureShared(id) == 1

\* the call whose closure holds the index that request id counts with
closureOf(id) == id

\* request id as its dispatcher code sees it
loaded(rs, id) == [rs[id] EXCEPT !.index = rs[closureOf(id)].index]

\* the requests after the dispatcher code of request id has left it as r
stored(rs, id, r) ==
    LET own == [rs EXCEPT ![id] = r] IN
    [own EXCEPT ![closureOf(id)].index = r.index]

\* faulty variant: the handler is taken off the shared list (mappings.shift())
snapshotsAfterShift(table, set, r) ==
    [table |-> IF r.hostname \in DOMAIN table /\ Len(table[r.hostname]) > 0
               THEN [table EXCEPT ![r.hostname] = Tail(@)] ELSE table,
     set |-> set]

\* the shared objects after dispatcher code ran for request r: it calls
\* domainToApp.get, certDomainSet.has and reads mappings[index], no more
snapshotsAfter(table, set, r) == [table |-> table, set |-> set]

\* the dispatcher code of request id leaves the request as r
Dispatched(id, r) ==
    /\ \E rs \in { stored(InFlight, id, r) } : q' = rs[1] /\ q2' = rs[2]
    /\ \E snap \in { snapshotsAfter(domainToApp, certDomainSet, r) } :
          domainToApp' = snap.table /\ certDomainSet' = snap.set
    /\ UNCHANGED << inputVars, phase, call, fileVars >>

\* the handler touches the response of request id only, leaving it as r
Handled(id, r) ==
    /\ \E rs \in { [InFlight EXCEPT ![id] = r] } : q' = rs[1] /\ q2' = rs[2]
    /\ UNCHANGED << inputVars, domainToApp, certDomainSet, phase, call, fileVars >>

\* the handler of position i of request r has responded, called its
\* continuation or thrown
HasActed(r, i) ==
    \/ r.h[i].nexts + r.h[i].errs > 0
    \/ r.h[i].threw
    \/ \E k \in 1..Len(r.sent) : r.sent[k].by = r.mappings[i].app

\* a request is over when its response is out and its handlers have returned
Over(r) == ~r.open \/ (r.headersSent /\ r.stack = << >>)

\* the transport calls httpsRequestHandler(req, res) for request id
RequestArrives(id, host) ==
    /\ phase = "listening"
    /\ Over(InFlight[id])
    /\ Dispatched(id, httpsRequestHandler(domainToApp, certDomainSet, host))

\* the handler of position i answers request id
AppAnswers(id, i) ==
    /\ Acting(InFlight[id], i)
    /\ ~HasActed(InFlight[id], i)
    /\ ~InFlight[id].headersSent
    /\ Handled(id, handlerResponds(InFlight[id], i))

\* the handler of position i of request id calls next()
AppDefers(id, i) ==
    /\ Acting(InFlight[id], i)
    /\ ~HasActed(InFlight[id], i)
    /\ Dispatched(id, handlerCallsNext(loaded(InFlight, id), i, FALSE))

\* the handler of position i of request id calls next(err)
AppFails(id, i) ==
    /\ Acting(InFlight[id], i)
    /\ ~HasActed(InFlight[id], i)
    /\ Dispatched(id, handlerCallsNext(loaded(InFlight, id), i, TRUE))

\* the handler of position i of request id throws
AppThrows(id, i) ==
    /\ Acting(InFlight[id], i)
    /\ InFlight[id].h[i].st = "running"
    /\ ~HasActed(InFlight[id], i)
    /\ Dispatched(id, handlerThrows(loaded(InFlight, id), i))

\* the handler of position i of request id returns
AppEnds(id, i) ==
    /\ Acting(InFlight[id], i)
    /\ InFlight[id].h[i].st = "running"
    /\ Handled(id, handlerReturns(InFlight[id], i))

\* the Host headers of the requests
TwoHosts == { dA, dUpperB, << "c" >> }

InitTwo ==
    /\ \E s \in ServedChoices :
          Inputs(<< << dUpperA >> >>, s, << << dB, dPaddedA >> >>)
    /\ domainToApp = buildDomainAppMap(serverDescriptors, staticAppDescriptors,
                                       proxyAppDescriptors)
    /\ certDomainSet = buildCertDomainSet(certificateEntries)
    /\ phase = "listening"
    /\ q = NoRequest
    /\ q2 = NoRequest
    /\ call = NoCall
    /\ cfgFile = NoFile
    /\ disk = << >>
    /\ certRoot = NoRoot

NextTwo ==
    \/ \E id \in Requests, host \in TwoHosts : RequestArrives(id, host)
    \/ \E id \in Requests : \E i \in 1..Len(InFlight[id].mappings) : AppAnswers(id, i)
    \/ \E id \in Requests : \E i \in 1..Len(InFlight[id].mappings) : AppDefers(id, i)
    \/ \E id \in Requests : \E i \in 1..Len(InFlight[id].mappings) : AppFails(id, i)
    \/ \E id \in Requests : \E i \in 1..Len(InFlight[id].mappings) : AppThrows(id, i)
    \/ \E id \in Requests : \E i \in 1..Len(InFlight[id].mappings) : AppEnds(id, i)

SpecTwo == InitTwo /\ [][NextTwo]_vars

-----------------------------------------------------------------------------
(* C29, C30 *)

\* C29: while the server listens, whatever requests have been dispatched and
\* however their handlers interleave, the routing table and the certificate
\* domain set are the ones built at startup.
C29_SnapshotsUnchanged ==
    phase = "listening" =>
        /\ domainToApp = buildDomainAppMap(serverDescriptors, staticAppDescriptors,
                                           proxyAppDescriptors)
        /\ certDomainSet = buildCertDomainSet(certificateEntries)

\* both requests walked a chain of three handlers to its end, one of them
\* with a throw, and the table still lists the three
C29_Witness ==
    /\ \A id \in Requests :
          /\ Len(InFlight[id].mappings) = 3
          /\ \E k \in 1..Len(InFlight[id].sent) : InFlight[id].sent[k].statusCode = 404
    /\ q.h[1].threw
    /\ Len(domainToApp[dA]) = 3

\* the handler of position i passed request r on: next() or a throw
PassedOn(r, i) == r.h[i].nexts > 0 \/ r.h[i].threw

\* the statuses the dispatcher wrote for request r
DispatcherStatuses(r) ==
    { r.sent[k].statusCode : k \in { x \in 1..Len(r.sent) : r.sent[x].by = Dispatcher } }

\* what a request processed alone shows: its handlers invoked in chain order,
\* each one after all those ahead passed it on, the index at the last one
\* invoked, and a dispatcher status that follows from its own handlers only
AsAlone(r) ==
    r.open =>
        /\ r.index = Len(r.invoked)
        /\ r.mappings = mapGet(domainToApp, r.hostname)
        /\ \A k \in 1..Len(r.invoked) :
              /\ r.invoked[k].pos = k
              /\ r.invoked[k].app = r.mappings[k].app
              /\ \A j \in 1..(k - 1) : PassedOn(r, j)
        /\ Len(r.mappings) > 0 => Len(r.invoked) >= 1
        /\ \A k \in 1..Len(r.mappings) :
              (k <= Len(r.invoked) /\ PassedOn(r, k) /\ k < Len(r.mappings))
                  => k + 1 <= Len(r.invoked)
        /\ 502 \in DispatcherStatuses(r) <=> Len(r.mappings) = 0
        /\ 404 \in DispatcherStatuses(r) <=>
              (Len(r.mappings) > 0 /\ \A k \in 1..Len(r.mappings) : PassedOn(r, k))
        /\ 500 \in DispatcherStatuses(r) <=>
              (\E k \in 1..Len(r.mappings) : r.h[k].errs > 0)

\* C30: with two requests in flight and their handlers' steps interleaved in
\* any order, each request shows what it would show alone: its own chain
\* walked in order by its own continuations, and the dispatcher status its
\* own handlers lead to.
C30_RequestsIndependent == AsAlone(q) /\ AsAlone(q2)

\* the two requests are for the same hostname and in the middle of its
\* chain at different positions, the later one further on
C30_Witness ==
    /\ q.open /\ q2.open /\ q.hostname = q2.hostname
    /\ ~q.headersSent /\ ~q2.headersSent
    /\ Len(q.mappings) = 3
    /\ Len(q.invoked) = 1 /\ Len(q2.invoked) = 3
    /\ q2.h[1].nexts = 1 /\ q2.h[2].threw

-----------------------------------------------------------------------------
(* C31 *)

\* a domain in the normal form of descriptors: lower-case, no http(s)://
\* scheme ahead of it, no slash at its end
IsNormalDomain(d) ==
    /\ d = toLowerCase(d)
    /\ ~startsWithIgnoringCase(d, schemeHttp) /\ ~startsWithIgnoringCase(d, schemeHttps)
    /\ (d = << >> \/ d[Len(d)] # "/")

\* C31: every domain a parse of a definition file returns, and so every
\* domain of a discovered descriptor and of the configuration written from
\* it, is lower-case, carries no scheme and ends with no slash.
C31_DomainsNormalized ==
    call.fn = "parseStaticsAndProxiesDomains" =>
        \A k \in 1..Len(call.parses) :
            \A d \in Range(call.parses[k].domains) : IsNormalDomain(d)

-----------------------------------------------------------------------------
(* C32 *)

\* C32: when a parse rewrites a definition file, the second token of every
\* usable line of the file read (the upstream target of a proxy definition)
\* is still a token of that line in the rewritten file.
C32_TargetKept ==
    call.fn = "parseStaticsAndProxiesDomains" =>
        \A k \in 1..Len(call.parses) :
            call.parses[k].rewrote =>
                LET before == splitLines(call.parses[k].read)
                    after  == splitLines(AfterParse(k))
                IN  \A i \in 1..Len(before) :
                        Usable(before[i]) =>
                            /\ i <= Len(after)
                            /\ Tokens(before[i])[2] \in Range(Tokens(after[i]))

-----------------------------------------------------------------------------
(* C33 *)

\* C33: once the headers of a request are out, no step invokes a further
\* handler or puts a status on the wire, whatever continuation calls and
\* exceptions follow; and the handlers invoked so far are always the first
\* entries of the chain, each once, in list order.
C33_Step ==
    /\ (q.open /\ q.headersSent) =>
          /\ q'.invoked = q.invoked
          /\ q'.sent = q.sent
          /\ q'.index = q.index
    /\ Len(q'.invoked) <= Len(q'.mappings)
    /\ \A k \in 1..Len(q'.invoked) :
          q'.invoked[k].pos = k /\ q'.invoked[k].app = q'.mappings[k].app

C33_NothingAfterHeaders == [][C33_Step]_vars

\* the first handler of a longer chain answered, then called its
\* continuation, passed an error and threw: no second handler was invoked
C33_Witness ==
    /\ q.open /\ Len(q.mappings) >= 2
    /\ q.headersSent /\ Len(q.sent) = 1 /\ q.sent[1].by = q.mappings[1].app
    /\ q.h[1].nexts >= 1 /\ q.h[1].threw
    /\ Len(q.invoked) = 1

-----------------------------------------------------------------------------
(* C34 *)

\* some handler of the request has called its continuation with an error
ErrorPassed(r) == \E i \in 1..Len(r.mappings) : r.h[i].errs >= 1

\* this step is a call of a continuation with an error
PassesError == \E i \in 1..Len(q.mappings) : q'.h[i].errs = q.h[i].errs + 1

\* C34: a continuation called with an error stops the walk: that call invokes
\* no handler, writes 500 "Internal server error." when the headers were not
\* sent and nothing when they were, and no handler is invoked at any later
\* step of the request.
C34_Step ==
    /\ (q.open /\ PassesError) =>
          /\ q'.invoked = q.invoked
          /\ ~q.headersSent =>
                /\ Len(q'.sent) = Len(q.sent) + 1
                /\ SubSeq(q'.sent, 1, Len(q.sent)) = q.sent
                /\ q'.sent[Len(q'.sent)].by = Dispatcher
                /\ q'.sent[Len(q'.sent)].statusCode = 500
                /\ q'.sent[Len(q'.sent)].body = "Internal server error."
          /\ q.headersSent => q'.sent = q.sent
    /\ (q.open /\ ErrorPassed(q)) => q'.invoked = q.invoked

C34_ErrorStopsWalk == [][C34_Step]_vars

\* an error was passed while handlers of the chain were still untried: the
\* request ended with the dispatcher's 500 and the rest was never invoked
C34_Witness ==
    /\ q.open /\ ErrorPassed(q)
    /\ Len(q.invoked) < Len(q.mappings)
    /\ Len(q.sent) = 1 /\ q.sent[1].by = Dispatcher /\ q.sent[1].statusCode = 500
    /\ \E i \in 1..Len(q.mappings) : q.h[i].errs >= 1 /\ q.h[i].nexts >= 1

\* an error was passed after the handler had answered: nothing was added
C34_WitnessAfterAnswer ==
    /\ q.open /\ ErrorPassed(q)
    /\ Len(q.sent) = 1 /\ q.sent[1].by # Dispatcher
    /\ Len(q.invoked) < Len(q.mappings)

-----------------------------------------------------------------------------
(* C35 *)

\* The dispatcher under the scheduling of the runtime: a handler is called
\* synchronously, so its call returns before anything else of the process
\* runs.  Whether a handler ever answers, calls its continuation or throws is
\* left open.  One request is followed to its end, for a routed and for an
\* unrouted hostname, on a server without certificates.
LiveHosts == { dA, << "c" >> }

InitLive == Init /\ certificateEntries = << >>

NextLive ==
    \/ \E host \in LiveHosts : Request(host)
    \/ \E i \in 1..Len(q.mappings) : HandlerResponds(i)
    \/ \E i \in 1..Len(q.mappings) : HandlerDefers(i)
    \/ \E i \in 1..Len(q.mappings) : HandlerFails(i)
    \/ \E i \in 1..Len(q.mappings) : HandlerThrows(i)
    \/ \E i \in 1..Len(q.mappings) : HandlerReturns(i)

SpecLive ==
    InitLive /\ [][NextLive]_vars
             /\ WF_vars(\E i \in 1..Len(q.mappings) : HandlerReturns(i))

\* the handler of position i has been invoked for the request
WasInvoked(i) == q.open /\ i <= Len(q.invoked)

\* the handler of position i has sent a response, called its continuation
\* (with or without an error) or thrown
HasDoneOne(i) ==
    /\ q.open /\ i <= Len(q.mappings)
    /\ \/ q.h[i].nexts + q.h[i].errs >= 1
       \/ q.h[i].threw
       \/ \E k \in 1..Len(q.sent) : q.sent[k].by = q.mappings[i].app

\* every handler that is invoked does one of the three at some time: what a
\* handler has done stays done, so this is that again and again all the
\* handlers invoked so far have done one
EveryInvokedHandlerActs ==
    []<>(\A i \in 1..Len(q.mappings) : WasInvoked(i) => HasDoneOne(i))

FinalStatus == q.open /\ q.sent # << >>

\* nothing but an act of a handler puts a status on a routed request
NoTimeout ==
    (q.open /\ q.mappings # << >> /\ \A i \in 1..Len(q.mappings) : ~HasDoneOne(i))
        => q.sent = << >>

\* C35: if every invoked handler eventually answers, calls its continuation or
\* throws, every request eventually has a final status, and never more
\* handlers are invoked than its chain has; as long as no handler of a routed
\* request has done any of the three the request has no response.
C35_DispatchTerminates ==
    /\ EveryInvokedHandlerActs => (q.open ~> FinalStatus)
    /\ [](Len(q.invoked) <= Len(q.mappings))
    /\ []NoTimeout

\* a chain of several handlers was walked to its end and the request has its
\* status after exactly as many invocations as the chain has handlers
C35_Witness ==
    /\ q.open /\ Len(q.mappings) >= 2
    /\ Len(q.invoked) = Len(q.mappings)
    /\ \A i \in 1..Len(q.mappings) : HasDoneOne(i)
    /\ q.sent # << >>

-----------------------------------------------------------------------------
(* C36 *)

\* some served-domain entry of a descriptor normalizes to the empty string
BlankDomainServed ==
    \E d \in AllDescriptors :
        \E j \in 1..Len(d.domains) : toLowerCase(trim(d.domains[j])) = << >>

\* C36: every key of the routing table is non-empty, lower-case and without
\* surrounding whitespace and has a non-empty list; a request whose Host
\* header is absent or empty (its hostname is the empty string) matches no
\* entry, is answered 502 by the dispatcher and reaches no handler.
C36_RoutingKeysNormal ==
    /\ \A k \in DOMAIN domainToApp :
          /\ k # << >>
          /\ k = toLowerCase(k)
          /\ k = trim(k)
          /\ Len(domainToApp[k]) >= 1
    /\ (q.open /\ q.hostname = << >>) =>
          /\ q.mappings = << >>
          /\ q.invoked = << >>
          /\ Len(q.sent) = 1
          /\ q.sent[1].by = Dispatcher
          /\ q.sent[1].statusCode = 502

\* a request without hostname arrived at a server one descriptor of which
\* lists a blank domain next to real ones
C36_Witness ==
    /\ q.open /\ q.hostname = << >>
    /\ BlankDomainServed
    /\ DOMAIN domainToApp # {}

-----------------------------------------------------------------------------
(* SpecKnowledge: one hostname and one set of certificates, seen by the     *)
(* request handler and by writeConfigFile                                   *)

dWildA == << "*", ".", "a" >>
dSubA == << "x", ".", "a" >>

\* the name lists of certificates
CertNameLists ==
    { << dA >>, << dUpperA, dPaddedA >>, << dWildA >>, << dB, dWildA >>, << dBlank >> }

\* the certificate entries of a server
CertSets ==
    UNION { [1..n -> { [domains |-> l] : l \in CertNameLists }] : n \in 0..MaxCertDirs }

\* hostnames as the handler derives them: lower case, no port
Hostnames == { dA, dB, dSubA, << "c" >> }

InitKnowledge ==
    /\ NotServing
    /\ \E h \in Hostnames, ee \in CertSets :
          call = [fn |-> "knowledge", hostname |-> h, certEntries |-> ee,
                  done |-> FALSE, headers |-> {}, has |-> FALSE, line |-> << >>]

\* the handler created over buildCertDomainSet(certEntries) answers a request
\* for the hostname, and writeConfigFile annotates the hostname as a domain
AnswerAndAnnotate ==
    /\ call.fn = "knowledge"
    /\ ~call.done
    /\ call' = [call EXCEPT
          !.done = TRUE,
          !.headers = httpsRequestHandler(EmptyMap, buildCertDomainSet(call.certEntries),
                                          call.hostname).headers,
          !.has = hasCertificateForDomain(call.hostname, call.certEntries),
          !.line = domainLine(call.hostname, call.certEntries)]
    /\ UNCHANGED << serverVars, fileVars >>

NextKnowledge == AnswerAndAnnotate

SpecKnowledge == InitKnowledge /\ [][NextKnowledge]_vars

-----------------------------------------------------------------------------
(* C37 *)

\* the annotation of a configuration line says the certificate is present
AnnotatedPresent(line) ==
    endsWith(line, << "(", "c", "e", "r", "t", ":", " ", "p", "r", "e", "s", "e", "n", "t", ")" >>)

\* C37: for every hostname and certificate set the handler injects the two
\* security headers exactly when hasCertificateForDomain holds of the
\* hostname, which is exactly when the configuration file annotates it
\* "cert: present".
C37_CertKnowledgeConsistent ==
    (call.fn = "knowledge" /\ call.done) =>
        /\ ({STS, CSP} \subseteq call.headers) = call.has
        /\ call.has = AnnotatedPresent(call.line)

-----------------------------------------------------------------------------
(* SpecQuiesce: rescans of a disk whose application module exports its   *)
(* domains as its author typed them                                     *)

\* the application module of the scenario, exporting 'a' or ' a '
ExportedModuleFiles ==
    { << >> } \cup { << [path |-> expressPath, kind |-> typeExpress, domains |-> << d >>,
                         found |-> TRUE, loads |-> "ok"] >> : d \in { dA, dPaddedA } }

InitQuiesce ==
    /\ proxyAppDescriptors = << >>
    /\ staticAppDescriptors = << >>
    /\ serverDescriptors = << >>
    /\ certificateEntries = certOfA
    /\ domainToApp = EmptyMap
    /\ certDomainSet = {}
    /\ phase = "offline"
    /\ q = NoRequest
    /\ q2 = NoRequest
    /\ call = [fn |-> "start", starts |-> << >>]
    /\ \E pf \in Files(proxyPath, typeProxy), ef \in ExportedModuleFiles :
          disk = pf \o ef
    /\ certRoot = GoodRoot
    /\ \/ cfgFile = NoFile
       \/ \E ps \in Stored(proxyPath, proxyTarget(proxyPath)) :
             cfgFile = writeConfigFile(<< >>, << >>, ps, certificateEntries)

NextQuiesce == Update

SpecQuiesce == InitQuiesce /\ [][NextQuiesce]_vars

-----------------------------------------------------------------------------
(* C38 *)

\* start k is a rescan that ran to its end, rewrote the configuration, and
\* every prompt of which was answered with its default
DefaultRescan(k) ==
    /\ call.starts[k].update
    /\ call.starts[k].wrote
    /\ \A x \in 1..Len(call.starts[k].prompts) :
          call.starts[k].prompts[x].answer = call.starts[k].prompts[x].defaultYes

\* C38: a rescan that directly follows a rescan answered with the defaults,
\* on the same disk and with the same certificates, asks nothing and writes
\* the configuration file the first one wrote.
C38_RescanQuiescence ==
    call.fn = "start" =>
        \A k \in 1..(Len(call.starts) - 1) :
            (DefaultRescan(k) /\ call.starts[k + 1].update) =>
                /\ call.starts[k + 1].prompts = << >>
                /\ call.starts[k + 1].wrote
                /\ call.starts[k + 1].before = call.starts[k].after
                /\ call.starts[k + 1].after = call.starts[k].after

-----------------------------------------------------------------------------
(* SpecUpdate: --update runs over a certificate root that may not load *)

\* certificate roots: missing, empty, with a directory that lacks its key,
\* and complete
UpdateRoots ==
    { NoRoot,
      [exists |-> TRUE, dirs |-> << >>],
      [exists |-> TRUE,
       dirs |-> << [name |-> << "a" >>, key |-> FALSE, cert |-> NoSAN, chain |-> TRUE] >>],
      GoodRoot }

InitUpdate ==
    /\ proxyAppDescriptors = << >>
    /\ staticAppDescriptors = << >>
    /\ serverDescriptors = << >>
    /\ certificateEntries = << >>
    /\ domainToApp = EmptyMap
    /\ certDomainSet = {}
    /\ phase = "offline"
    /\ q = NoRequest
    /\ q2 = NoRequest
    /\ call = [fn |-> "start", starts |-> << >>]
    /\ \E pf \in Files(proxyPath, typeProxy), ef \in ModuleFiles :
          disk = pf \o ef
    /\ certRoot \in UpdateRoots
    /\ \/ cfgFile = NoFile
       \/ \E ps \in Stored(proxyPath, proxyTarget(proxyPath)) :
             cfgFile = writeConfigFile(<< >>, << >>, ps, certOfA)

NextUpdate == Update

SpecUpdate == InitUpdate /\ [][NextUpdate]_vars

-----------------------------------------------------------------------------
(* C39 *)

\* C39: an --update run whose certificate loading fails after the prompts
\* were answered leaves the configuration file as it was before the run: it
\* is not rewritten, truncated or created.
C39_FailedLoadKeepsFile ==
    call.fn = "start" =>
        /\ \A k \in 1..Len(call.starts) :
              call.starts[k].loadFailed =>
                  /\ ~call.starts[k].wrote
                  /\ call.starts[k].after = call.starts[k].before
        /\ call.starts # << >> => cfgFile = call.starts[Len(call.starts)].after

\* the operator accepted an update of a persisted entry, then the
\* certificates failed to load
C39_Witness ==
    /\ call.fn = "start" /\ call.starts # << >>
    /\ call.starts[1].loadFailed
    /\ call.starts[1].before # NoFile
    /\ \E x \in 1..Len(call.starts[1].prompts) :
          /\ call.starts[1].prompts[x].what = "update"
          /\ call.starts[1].prompts[x].answer
    /\ cfgFile = call.starts[1].before

=============================================================================
